---------------------------- MODULE Spec2Model ----------------------------
(***************************************************************************)
(* Markdown Kanban: the markdown parser / serializer                       *)
(* (MarkdownKanbanParser) and the board mutations of KanbanWebviewPanel.   *)
(*                                                                         *)
(* Text is modelled by TLA+ strings, character for character: the regular  *)
(* expressions and the string methods of the source are operators over     *)
(* the characters of a string.  An optional field of a JavaScript object   *)
(* is a tuple: <<>> when the field is undefined, <<v>> when it holds v.    *)
(***************************************************************************)
EXTENDS Integers, Sequences, FiniteSets, TLC

(***************************************************************************)
(* JavaScript string methods                                               *)
(***************************************************************************)
\* s.slice(m - 1, n): the characters m .. n of s that exist
Slice(s, m, n) ==
    LET a == IF m < 1 THEN 1 ELSE m
        b == IF n > Len(s) THEN Len(s) ELSE n
    IN  IF a > b THEN "" ELSE SubSeq(s, a, b)

\* s.charAt(i - 1)
Ch(s, i) == Slice(s, i, i)

IsSpace(c) == c \in {" ", "\t", "\n", "\r"}

IsDigit(c) == c \in {"0", "1", "2", "3", "4", "5", "6", "7", "8", "9"}

StartsWith(s, p) == Len(p) <= Len(s) /\ Slice(s, 1, Len(p)) = p

EndsWith(s, p) == Len(p) <= Len(s) /\ Slice(s, Len(s) - Len(p) + 1, Len(s)) = p

\* s.substring(k)
Substring(s, k) == Slice(s, k + 1, Len(s))

\* the first index >= i of s that holds no white space (Len(s) + 1 if none)
RECURSIVE SkipSpaces(_, _)
SkipSpaces(s, i) ==
    IF i <= Len(s) /\ IsSpace(Ch(s, i)) THEN SkipSpaces(s, i + 1) ELSE i

\* the last index <= j of s that holds no white space (0 if none)
RECURSIVE SkipSpacesBack(_, _)
SkipSpacesBack(s, j) ==
    IF j >= 1 /\ IsSpace(Ch(s, j)) THEN SkipSpacesBack(s, j - 1) ELSE j

\* the first index >= i of s that holds no digit
RECURSIVE SkipDigits(_, _)
SkipDigits(s, i) ==
    IF i <= Len(s) /\ IsDigit(Ch(s, i)) THEN SkipDigits(s, i + 1) ELSE i

\* s.trim()
Trim(s) ==
    LET a == SkipSpaces(s, 1)
        b == SkipSpacesBack(s, Len(s))
    IN  IF a > b THEN "" ELSE Slice(s, a, b)

\* the least element of a non-empty set of integers
Least(S) == CHOOSE k \in S : \A j \in S : k <= j

\* the indices 1 .. n in order
Indices(n) == [k \in 1 .. n |-> k]

\* s.split(sep) for a one-character separator
Split(s, sep) ==
    LET seps == SelectSeq(Indices(Len(s)), LAMBDA k : Ch(s, k) = sep)
        \* the position of the j-th separator; 0 and Len(s) + 1 bracket them
        pos(j) == IF j = 0 THEN 0
                  ELSE IF j > Len(seps) THEN Len(s) + 1
                  ELSE seps[j]
    IN  [j \in 1 .. Len(seps) + 1 |-> Slice(s, pos(j - 1) + 1, pos(j) - 1)]

\* parts.join(sep)
RECURSIVE Join(_, _)
Join(parts, sep) ==
    IF Len(parts) = 0 THEN ""
    ELSE IF Len(parts) = 1 THEN parts[1]
    ELSE parts[1] \o sep \o Join(Tail(parts), sep)

\* the first index >= i at which p occurs in s (0 if none): s.indexOf(p, i - 1) + 1
IndexOf(s, p, i) ==
    LET hits == SelectSeq(Indices(Len(s) - Len(p) + 1),
                          LAMBDA k : k >= i /\ Slice(s, k, k + Len(p) - 1) = p)
    IN  IF Len(hits) = 0 THEN 0 ELSE hits[1]

\* the last index <= i at which the character c occurs in s (0 if none)
LastIndexOf(s, c, i) ==
    LET hits == {k \in 1 .. i : Ch(s, k) = c}
    IN  IF hits = {} THEN 0 ELSE CHOOSE k \in hits : \A j \in hits : j <= k

UpperLetters == "ABCDEFGHIJKLMNOPQRSTUVWXYZ"

LowerLetters == "abcdefghijklmnopqrstuvwxyz"

\* the lower-case letter of each upper-case letter
LowerOf ==
    [c \in {Ch(UpperLetters, k) : k \in 1 .. 26} |->
        Ch(LowerLetters, CHOOSE k \in 1 .. 26 : Ch(UpperLetters, k) = c)]

\* s.toLowerCase()
RECURSIVE ToLowerCase(_)
ToLowerCase(s) ==
    IF Len(s) = 0 THEN ""
    ELSE (IF Ch(s, 1) \in DOMAIN LowerOf THEN LowerOf[Ch(s, 1)] ELSE Ch(s, 1))
         \o ToLowerCase(Substring(s, 1))

Digits == "0123456789"

\* `${n}` for a non-negative integer n
RECURSIVE NumToString(_)
NumToString(n) ==
    IF n < 10 THEN Ch(Digits, n + 1)
    ELSE NumToString(n \div 10) \o Ch(Digits, (n % 10) + 1)

\* parseInt(s) for a string of digits
RECURSIVE ParseInt(_)
ParseInt(s) ==
    IF Len(s) = 0 THEN 0
    ELSE 10 * ParseInt(Slice(s, 1, Len(s) - 1)) + (IndexOf(Digits, Ch(s, Len(s)), 1) - 1)

\* seq.map(f), seq.filter(p)
RECURSIVE MapTrim(_)
MapTrim(parts) ==
    IF Len(parts) = 0 THEN << >>
    ELSE << Trim(parts[1]) >> \o MapTrim(Tail(parts))

NonEmpty(parts) == SelectSeq(parts, LAMBDA t : t # "")

(***************************************************************************)
(* Optional values                                                         *)
(***************************************************************************)
Undefined == << >>

Some(v) == << v >>

IsDefined(o) == Len(o) = 1

\* JavaScript truthiness of an optional string / an optional boolean
TruthyStr(o) == IsDefined(o) /\ o[1] # ""

TruthyBool(o) == IsDefined(o) /\ o[1]

(***************************************************************************)
(* The board model (KanbanTask, KanbanColumn, KanbanBoard)                 *)
(***************************************************************************)
ChecklistKeys == <<"steps", "ac", "verify">>

\* the task object parseMarkdown creates for a header line
NewTask(id, title) ==
    [id |-> id, title |-> title, description |-> Some(""),
     tags |-> Undefined, priority |-> Undefined, workload |-> Undefined,
     dueDate |-> Undefined, defaultExpanded |-> Undefined,
     steps |-> Undefined, ac |-> Undefined, verify |-> Undefined,
     files |-> Undefined]

\* a bug: matches any id that begins with TSK
MutIsTaskIdPrefixOnly(id) == StartsWith(id, "TSK")

\* /^TSK[_-]\d+$/
IsTaskId(id) ==
    /\ Len(id) >= 5
    /\ Slice(id, 1, 3) = "TSK"
    /\ Ch(id, 4) \in {"_", "-"}
    /\ SkipDigits(id, 5) = Len(id) + 1

(***************************************************************************)
(* generateMarkdown                                                        *)
(***************************************************************************)
RECURSIVE ChecklistItemsMarkdown(_)
ChecklistItemsMarkdown(items) ==
    IF Len(items) = 0 THEN ""
    ELSE "- " \o (IF items[1].completed THEN "[x]" ELSE "[ ]") \o " "
         \o items[1].text \o "\n" \o ChecklistItemsMarkdown(Tail(items))

\* one checklist of a task: nothing for an absent or empty list
ChecklistMarkdown(list, header) ==
    IF IsDefined(list) /\ Len(list[1]) > 0
    THEN "\n**" \o header \o ":**\n" \o ChecklistItemsMarkdown(list[1])
    ELSE ""

\* the blockquote metadata line: > tags | priority
MetaMarkdown(task) ==
    LET metaParts ==
            (IF IsDefined(task.tags) /\ Len(task.tags[1]) > 0
             THEN << Join(task.tags[1], ", ") >> ELSE << >>)
            \o (IF TruthyStr(task.priority) THEN << task.priority[1] >> ELSE << >>)
    IN  IF Len(metaParts) > 0 THEN "> " \o Join(metaParts, " | ") \o "\n" ELSE ""

\* a bug: the list style leaves out the id prefix
MutTaskMarkdownListNoId(task, taskHeaderFormat) ==
    LET idPrefix == IF task.id # "" /\ IsTaskId(task.id) THEN task.id \o " " ELSE ""
    IN  (IF taskHeaderFormat = "title" THEN "### " \o idPrefix ELSE "- ")
        \o task.title \o "\n"
        \o MetaMarkdown(task)
        \o (IF TruthyStr(task.description) /\ Trim(task.description[1]) # ""
            THEN "\n" \o Trim(task.description[1]) \o "\n" ELSE "")
        \o (IF TruthyStr(task.dueDate)
            THEN "\n**Due:** " \o task.dueDate[1] \o "\n" ELSE "")
        \o (IF TruthyStr(task.workload)
            THEN "\n**Workload:** " \o task.workload[1] \o "\n" ELSE "")
        \o ChecklistMarkdown(task.steps, "Steps")
        \o ChecklistMarkdown(task.ac, "AC")
        \o ChecklistMarkdown(task.verify, "Verify")
        \o (IF TruthyStr(task.files)
            THEN "\n**Files:** " \o task.files[1] \o "\n" ELSE "")
        \o "\n"

TaskMarkdown(task, taskHeaderFormat) ==
    LET idPrefix == IF task.id # "" /\ IsTaskId(task.id) THEN task.id \o " " ELSE ""
    IN  (IF taskHeaderFormat = "title" THEN "### " ELSE "- ")
        \o idPrefix \o task.title \o "\n"
        \o MetaMarkdown(task)
        \o (IF TruthyStr(task.description) /\ Trim(task.description[1]) # ""
            THEN "\n" \o Trim(task.description[1]) \o "\n" ELSE "")
        \o (IF TruthyStr(task.dueDate)
            THEN "\n**Due:** " \o task.dueDate[1] \o "\n" ELSE "")
        \o (IF TruthyStr(task.workload)
            THEN "\n**Workload:** " \o task.workload[1] \o "\n" ELSE "")
        \o ChecklistMarkdown(task.steps, "Steps")
        \o ChecklistMarkdown(task.ac, "AC")
        \o ChecklistMarkdown(task.verify, "Verify")
        \o (IF TruthyStr(task.files)
            THEN "\n**Files:** " \o task.files[1] \o "\n" ELSE "")
        \o "\n"

RECURSIVE TasksMarkdown(_, _)
TasksMarkdown(tasks, taskHeaderFormat) ==
    IF Len(tasks) = 0 THEN ""
    ELSE TaskMarkdown(tasks[1], taskHeaderFormat)
         \o TasksMarkdown(Tail(tasks), taskHeaderFormat)

ColumnMarkdown(column, taskHeaderFormat) ==
    "## " \o (IF TruthyBool(column.archived)
              THEN column.title \o " [Archived]" ELSE column.title)
    \o "\n\n" \o TasksMarkdown(column.tasks, taskHeaderFormat)

RECURSIVE ColumnsMarkdown(_, _)
ColumnsMarkdown(columns, taskHeaderFormat) ==
    IF Len(columns) = 0 THEN ""
    ELSE ColumnMarkdown(columns[1], taskHeaderFormat)
         \o ColumnsMarkdown(Tail(columns), taskHeaderFormat)

\* a bug: the counter comment is not written
MutGenerateMarkdownNoCounter(board, taskHeaderFormat) ==
    (IF board.title # "" THEN "# " \o board.title \o "\n\n" ELSE "")
    \o ColumnsMarkdown(board.columns, taskHeaderFormat)

generateMarkdown(board, taskHeaderFormat) ==
    "<!-- next-id: " \o NumToString(board.nextId) \o " -->\n"
    \o (IF board.title # "" THEN "# " \o board.title \o "\n\n" ELSE "")
    \o ColumnsMarkdown(board.columns, taskHeaderFormat)

(***************************************************************************)
(* parseMarkdown: the regular expressions                                  *)
(***************************************************************************)
\* content.replace(/\r\n/g, '\n').replace(/\r/g, '\n')
RECURSIVE NormalizeNewlines(_)
NormalizeNewlines(s) ==
    LET k == IndexOf(s, "\r", 1)
    IN  IF k = 0 THEN s
        ELSE Slice(s, 1, k - 1) \o "\n"
             \o NormalizeNewlines(Substring(s, IF Ch(s, k + 1) = "\n" THEN k + 1 ELSE k))

\* /<!--\s*next-id:\s*(\d+)\s*-->/ tried at index p: the digits, or "" if no match there
CounterAt(content, p) ==
    LET a == SkipSpaces(content, p + 4)
        b == SkipSpaces(content, a + 8)
        c == SkipDigits(content, b)
        d == SkipSpaces(content, c)
    IN  IF /\ Slice(content, p, p + 3) = "<!--"
           /\ Slice(content, a, a + 7) = "next-id:"
           /\ c > b
           /\ Slice(content, d, d + 2) = "-->"
        THEN Slice(content, b, c - 1) ELSE ""

\* content.match(/<!--\s*next-id:\s*(\d+)\s*-->/): group 1 of the first match from p on
RECURSIVE CounterMatch(_, _)
CounterMatch(content, p) ==
    LET q == IndexOf(content, "<!--", p)
    IN  IF q = 0 THEN Undefined
        ELSE IF CounterAt(content, q) # "" THEN Some(CounterAt(content, q))
        ELSE CounterMatch(content, q + 1)

PropertyKeys ==
    <<"id", "due", "tags", "priority", "workload", "steps", "defaultExpanded",
      "desc", "ac", "verify", "files">>

\* (id|due|...|files): at the start of s: the key, or "" if none
KeyColonAt(s) ==
    LET hits == SelectSeq(PropertyKeys, LAMBDA k : StartsWith(s, k \o ":"))
    IN  IF Len(hits) = 0 THEN "" ELSE hits[1]

\* line.match(/^\s+- (id|...|files):\s*(.*)$/): <<key, value>> or Undefined
PropertyMatch(line) ==
    LET a == SkipSpaces(line, 1)
        rest == Substring(line, a + 1)
        key == KeyColonAt(rest)
    IN  IF a > 1 /\ Slice(line, a, a + 1) = "- " /\ key # ""
        THEN Some(<< key, Substring(rest, Len(key) + 1) >>)
        ELSE Undefined

\* trimmedLine.match(/^-\s+\[([ x])\]\s+(.*)$/): <<mark, text>> or Undefined
ChecklistMatch(trimmedLine) ==
    LET a == SkipSpaces(trimmedLine, 2)
        b == SkipSpaces(trimmedLine, a + 3)
    IN  IF /\ StartsWith(trimmedLine, "-")
           /\ a > 2
           /\ Ch(trimmedLine, a) = "["
           /\ Ch(trimmedLine, a + 1) \in {" ", "x"}
           /\ Ch(trimmedLine, a + 2) = "]"
           /\ b > a + 3
        THEN Some(<< Ch(trimmedLine, a + 1), Substring(trimmedLine, b - 1) >>)
        ELSE Undefined

\* line.match(/^\s{6,}- \[([ x])\]\s*(.*)$/): <<mark, text>> or Undefined
OldChecklistMatch(line) ==
    LET a == SkipSpaces(line, 1)
    IN  IF /\ a >= 7
           /\ Slice(line, a, a + 2) = "- ["
           /\ Ch(line, a + 3) \in {" ", "x"}
           /\ Ch(line, a + 4) = "]"
        THEN Some(<< Ch(line, a + 3), Substring(line, a + 4) >>)
        ELSE Undefined

SectionNames == <<"ac", "verify", "steps", "files">>

\* trimmedLine.match(/^\*\*(AC|Verify|Steps|Files):\*\*\s*(.*)$/i):
\* <<section name in lower case, inline value>> or Undefined
BoldSectionMatch(trimmedLine) ==
    LET lower == ToLowerCase(Slice(trimmedLine, 1, 11))
        hits == SelectSeq(SectionNames,
                          LAMBDA n : StartsWith(lower, "**" \o n \o ":**"))
    IN  IF Len(hits) = 0 THEN Undefined
        ELSE Some(<< hits[1], Substring(trimmedLine, Len(hits[1]) + 5) >>)

\* trimmedLine.match(/^!\[.*\]\(.*\)/)
ImageMatch(trimmedLine) ==
    /\ StartsWith(trimmedLine, "![")
    /\ \E j \in 3 .. Len(trimmedLine) :
          /\ Slice(trimmedLine, j, j + 1) = "]("
          /\ IndexOf(trimmedLine, ")", j + 2) # 0

\* value.match(/\[(.*)\]/): group 1, or Undefined
TagsMatch(value) ==
    LET a == IndexOf(value, "[", 1)
        b == LastIndexOf(value, "]", Len(value))
    IN  IF a # 0 /\ b > a THEN Some(Slice(value, a + 1, b - 1)) ELSE Undefined

\* taskTitle.match(/^(TSK[_-]\d+)\s+(.*)$/): <<id, title>> or Undefined
TskMatch(taskTitle) ==
    LET c == SkipDigits(taskTitle, 5)
        d == SkipSpaces(taskTitle, c)
    IN  IF /\ Slice(taskTitle, 1, 3) = "TSK"
           /\ Ch(taskTitle, 4) \in {"_", "-"}
           /\ c > 5
           /\ d > c
        THEN Some(<< Slice(taskTitle, 1, c - 1), Substring(taskTitle, d - 1) >>)
        ELSE Undefined

\* columnTitle.replace(/\s*\[Archived\]$/, '')
StripArchived(columnTitle) ==
    Slice(columnTitle, 1, SkipSpacesBack(columnTitle, Len(columnTitle) - 10))

(***************************************************************************)
(* parseMarkdown: the helpers                                              *)
(***************************************************************************)
isTaskTitle(line, trimmedLine) ==
    IF /\ StartsWith(line, "- ")
       /\ \/ (StartsWith(trimmedLine, "- ") /\ KeyColonAt(Substring(trimmedLine, 2)) # "")
          \/ IsDefined(OldChecklistMatch(line))
    THEN FALSE
    ELSE IF IsDefined(ChecklistMatch(trimmedLine)) THEN FALSE
    ELSE IF IsDefined(BoldSectionMatch(trimmedLine)) THEN FALSE
    ELSE \/ (StartsWith(line, "- ") /\ ~StartsWith(line, "  "))
         \/ StartsWith(trimmedLine, "### ")

Priorities == {"low", "medium", "high"}

Workloads == {"Easy", "Normal", "Hard", "Extreme"}

\* the task after the switch of parseTaskProperty on a matched property
ApplyProperty(task, propertyName, value) ==
    CASE propertyName = "id" ->
            IF value # "" THEN [task EXCEPT !.id = value] ELSE task
      [] propertyName = "due" -> [task EXCEPT !.dueDate = Some(value)]
      [] propertyName = "tags" ->
            IF IsDefined(TagsMatch(value))
            THEN [task EXCEPT !.tags = Some(MapTrim(Split(TagsMatch(value)[1], ",")))]
            ELSE task
      [] propertyName = "priority" ->
            IF value \in Priorities THEN [task EXCEPT !.priority = Some(value)] ELSE task
      [] propertyName = "workload" ->
            IF value \in Workloads THEN [task EXCEPT !.workload = Some(value)] ELSE task
      [] propertyName = "defaultExpanded" ->
            [task EXCEPT !.defaultExpanded = Some(ToLowerCase(value) = "true")]
      [] propertyName = "steps" -> [task EXCEPT !.steps = Some(<< >>)]
      [] propertyName = "ac" -> [task EXCEPT !.ac = Some(<< >>)]
      [] propertyName = "verify" -> [task EXCEPT !.verify = Some(<< >>)]
      [] propertyName = "files" -> [task EXCEPT !.files = Some(value)]
      [] propertyName = "desc" ->
            IF value # ""
            THEN [task EXCEPT !.description =
                     Some(IF TruthyStr(task.description)
                          THEN task.description[1] \o "\n" \o value ELSE value)]
            ELSE task

\* parseTaskProperty: [key |-> the property name or "" (false), task |-> the task after it]
parseTaskProperty(line, task) ==
    LET propertyMatch == PropertyMatch(line)
    IN  IF ~IsDefined(propertyMatch) THEN [key |-> "", task |-> task]
        ELSE [key |-> propertyMatch[1][1],
              task |-> ApplyProperty(task, propertyMatch[1][1], Trim(propertyMatch[1][2]))]

\* parseOldChecklistItem: [ok |-> the result, task |-> the task after it]
parseOldChecklistItem(line, task, listKey) ==
    LET stepMatch == OldChecklistMatch(line)
    IN  IF listKey = "" \/ ~IsDefined(task[listKey]) \/ ~IsDefined(stepMatch)
        THEN [ok |-> FALSE, task |-> task]
        ELSE [ok |-> TRUE,
              task |-> [task EXCEPT ![listKey] =
                          Some(Append(task[listKey][1],
                                      [text |-> Trim(stepMatch[1][2]),
                                       completed |-> stepMatch[1][1] = "x"]))]]

\* the task as finalizeCurrentTask leaves it before pushing it
FinalizedTask(task) ==
    IF TruthyStr(task.description)
    THEN IF Trim(task.description[1]) = ""
         THEN [task EXCEPT !.description = Undefined]
         ELSE [task EXCEPT !.description = Some(Trim(task.description[1]))]
    ELSE task

\* a bug: the task is pushed twice
MutFinalizePushesTwice(task, column) ==
    IF ~IsDefined(task) \/ ~IsDefined(column) THEN column
    ELSE Some([column[1] EXCEPT
                  !.tasks = @ \o << FinalizedTask(task[1]), FinalizedTask(task[1]) >>])

\* finalizeCurrentTask(task, column): the column after it (task, column: optional)
finalizeCurrentTask(task, column) ==
    IF ~IsDefined(task) \/ ~IsDefined(column) THEN column
    ELSE Some([column[1] EXCEPT !.tasks = Append(@, FinalizedTask(task[1]))])

\* currentTask.description ? currentTask.description + '\n' + text : text
AppendDescription(task, text) ==
    [task EXCEPT !.description =
        Some(IF TruthyStr(task.description)
             THEN task.description[1] \o "\n" \o text ELSE text)]

(***************************************************************************)
(* parseMarkdown: the loop.  A parser state st holds the local variables   *)
(* of parseMarkdown: lines, i (1-based), the board under construction      *)
(* (title, columns, nextId), currentColumn and currentTask (optional),     *)
(* the flags, activeListKey ("" for null), and the outcomes rnd of the     *)
(* successive generateId() calls with the number g of calls made so far.   *)
(***************************************************************************)
\* The code fence marker, three backticks.  A TLA+ string cannot hold a backtick:
\* the character ~ stands for it in every text of this module.
Fence == "~~~"

\* generateId(): Math.random().toString(36).substr(2, 9)
generateId(st) == st.rnd[(st.g % Len(st.rnd)) + 1]

\* a bug: the counter is read only from a comment at the start of the text
MutParserStartCounterAtStart(content, rnd) ==
    [lines |-> Split(NormalizeNewlines(content), "\n"),
     i |-> 1,
     title |-> "",
     columns |-> << >>,
     nextId |-> IF CounterAt(content, 1) # "" THEN ParseInt(CounterAt(content, 1)) ELSE 1,
     currentColumn |-> Undefined,
     currentTask |-> Undefined,
     inTaskBody |-> FALSE,
     inCodeBlock |-> FALSE,
     activeListKey |-> "",
     collectingDescription |-> FALSE,
     rnd |-> rnd,
     g |-> 0]

\* the state at the start of the loop
ParserStart(content, rnd) ==
    [lines |-> Split(NormalizeNewlines(content), "\n"),
     i |-> 1,
     title |-> "",
     columns |-> << >>,
     nextId |-> IF IsDefined(CounterMatch(content, 1))
                THEN ParseInt(CounterMatch(content, 1)[1]) ELSE 1,
     currentColumn |-> Undefined,
     currentTask |-> Undefined,
     inTaskBody |-> FALSE,
     inCodeBlock |-> FALSE,
     activeListKey |-> "",
     collectingDescription |-> FALSE,
     rnd |-> rnd,
     g |-> 0]

\* `# ` line: the board title
TitleLine(st, trimmedLine) ==
    [st EXCEPT !.title = Trim(Substring(trimmedLine, 2)),
               !.currentColumn = finalizeCurrentTask(st.currentTask, st.currentColumn),
               !.currentTask = Undefined,
               !.inTaskBody = FALSE,
               !.activeListKey = "",
               !.collectingDescription = FALSE,
               !.i = @ + 1]

\* a bug: the column that was open is not pushed to the board
MutColumnLineDropsColumn(st, trimmedLine) ==
    LET columnTitle == Trim(Substring(trimmedLine, 3))
        isArchived == EndsWith(columnTitle, "[Archived]")
    IN  [st EXCEPT !.currentTask = Undefined,
                   !.currentColumn =
                       Some([id |-> generateId(st),
                             title |-> IF isArchived
                                       THEN Trim(StripArchived(columnTitle))
                                       ELSE columnTitle,
                             tasks |-> << >>,
                             archived |-> Some(isArchived)]),
                   !.g = @ + 1,
                   !.inTaskBody = FALSE,
                   !.activeListKey = "",
                   !.collectingDescription = FALSE,
                   !.i = @ + 1]

\* `## ` line: a column header
ColumnLine(st, trimmedLine) ==
    LET closed == finalizeCurrentTask(st.currentTask, st.currentColumn)
        columnTitle == Trim(Substring(trimmedLine, 3))
        isArchived == EndsWith(columnTitle, "[Archived]")
    IN  [st EXCEPT !.columns = IF IsDefined(closed) THEN Append(@, closed[1]) ELSE @,
                   !.currentTask = Undefined,
                   !.currentColumn =
                       Some([id |-> generateId(st),
                             title |-> IF isArchived
                                       THEN Trim(StripArchived(columnTitle))
                                       ELSE columnTitle,
                             tasks |-> << >>,
                             archived |-> Some(isArchived)]),
                   !.g = @ + 1,
                   !.inTaskBody = FALSE,
                   !.activeListKey = "",
                   !.collectingDescription = FALSE,
                   !.i = @ + 1]

\* the title text of a task header line
HeaderTitle(trimmedLine) ==
    IF StartsWith(trimmedLine, "### ") THEN Trim(Substring(trimmedLine, 4))
    ELSE LET taskTitle == Trim(Substring(trimmedLine, 2))
         IN  IF StartsWith(taskTitle, "[ ] ") \/ StartsWith(taskTitle, "[x] ")
             THEN Trim(Substring(taskTitle, 4)) ELSE taskTitle

\* a task header line (`### ` or root-level `- `)
TaskHeaderLine(st, trimmedLine) ==
    LET closed == finalizeCurrentTask(st.currentTask, st.currentColumn)
        taskTitle == HeaderTitle(trimmedLine)
        tskMatch == TskMatch(taskTitle)
    IN  IF IsDefined(st.currentColumn)
        THEN [st EXCEPT !.currentColumn = closed,
                        !.currentTask =
                            Some(IF IsDefined(tskMatch)
                                 THEN NewTask(tskMatch[1][1], tskMatch[1][2])
                                 ELSE NewTask(generateId(st), taskTitle)),
                        !.g = IF IsDefined(tskMatch) THEN @ ELSE @ + 1,
                        !.inTaskBody = TRUE,
                        !.activeListKey = "",
                        !.collectingDescription = FALSE,
                        !.i = @ + 1]
        ELSE [st EXCEPT !.i = @ + 1]

\* `> tags | priority`
\* a bug: the metadata line does not start the collection of the description
MutBlockquoteLineNoDescription(st, trimmedLine) ==
    LET parts == MapTrim(Split(Trim(Substring(trimmedLine, 2)), "|"))
        tagsPart == parts[1]
        priorityPart == IF Len(parts) > 1 THEN parts[2] ELSE ""
        task == st.currentTask[1]
        tagged == IF tagsPart # ""
                  THEN [task EXCEPT !.tags = Some(NonEmpty(MapTrim(Split(tagsPart, ","))))]
                  ELSE task
    IN  [st EXCEPT !.currentTask =
                       Some(IF priorityPart # "" /\ ToLowerCase(priorityPart) \in Priorities
                            THEN [tagged EXCEPT !.priority = Some(ToLowerCase(priorityPart))]
                            ELSE tagged),
                   !.activeListKey = "",
                   !.i = @ + 1]

BlockquoteLine(st, trimmedLine) ==
    LET parts == MapTrim(Split(Trim(Substring(trimmedLine, 2)), "|"))
        tagsPart == parts[1]
        priorityPart == IF Len(parts) > 1 THEN parts[2] ELSE ""
        task == st.currentTask[1]
        tagged == IF tagsPart # ""
                  THEN [task EXCEPT !.tags = Some(NonEmpty(MapTrim(Split(tagsPart, ","))))]
                  ELSE task
    IN  [st EXCEPT !.currentTask =
                       Some(IF priorityPart # "" /\ ToLowerCase(priorityPart) \in Priorities
                            THEN [tagged EXCEPT !.priority = Some(ToLowerCase(priorityPart))]
                            ELSE tagged),
                   !.collectingDescription = TRUE,
                   !.activeListKey = "",
                   !.i = @ + 1]

\* `**AC:**` / `**Verify:**` / `**Steps:**` / `**Files:**`
BoldSectionLine(st, boldSectionMatch) ==
    LET sectionName == boldSectionMatch[1]
        inlineValue == Trim(boldSectionMatch[2])
        task == st.currentTask[1]
    IN  IF sectionName = "files"
        THEN [st EXCEPT !.currentTask =
                            Some(IF inlineValue # ""
                                 THEN [task EXCEPT !.files = Some(inlineValue)] ELSE task),
                        !.collectingDescription = FALSE,
                        !.activeListKey = "",
                        !.i = @ + 1]
        ELSE [st EXCEPT !.currentTask =
                            Some(IF IsDefined(task[sectionName]) THEN task
                                 ELSE [task EXCEPT ![sectionName] = Some(<< >>)]),
                        !.collectingDescription = FALSE,
                        !.activeListKey = sectionName,
                        !.i = @ + 1]

\* a bug: the item is appended to steps whatever list is active
MutChecklistLineAlwaysSteps(st, checklistMatch) ==
    LET task == st.currentTask[1]
    IN  [st EXCEPT !.currentTask =
                       Some(IF IsDefined(task.steps)
                            THEN [task EXCEPT !.steps =
                                     Some(Append(task.steps[1],
                                                 [text |-> Trim(checklistMatch[2]),
                                                  completed |-> checklistMatch[1] = "x"]))]
                            ELSE task),
                   !.collectingDescription = FALSE,
                   !.i = @ + 1]

\* `- [ ] item` / `- [x] item` under an active list
ChecklistLine(st, checklistMatch) ==
    LET task == st.currentTask[1]
        key == st.activeListKey
    IN  [st EXCEPT !.currentTask =
                       Some(IF IsDefined(task[key])
                            THEN [task EXCEPT ![key] =
                                     Some(Append(task[key][1],
                                                 [text |-> Trim(checklistMatch[2]),
                                                  completed |-> checklistMatch[1] = "x"]))]
                            ELSE task),
                   !.collectingDescription = FALSE,
                   !.i = @ + 1]

\* a bug: the task is finalized but stays the current task, so the line that is
\* presented again meets the same rules again
MutBoundaryLineKeepsTask(st) ==
    [st EXCEPT !.currentColumn = finalizeCurrentTask(st.currentTask, st.currentColumn),
               !.activeListKey = "",
               !.collectingDescription = FALSE]

\* a line no rule of the task body matches: finalize the task, re-process the line
BoundaryLine(st) ==
    [st EXCEPT !.currentColumn = finalizeCurrentTask(st.currentTask, st.currentColumn),
               !.currentTask = Undefined,
               !.inTaskBody = FALSE,
               !.activeListKey = "",
               !.collectingDescription = FALSE]

\* a bug: the empty line ends the collection of the description
MutBlankLineEndsDescription(st) ==
    [st EXCEPT !.collectingDescription = FALSE, !.i = @ + 1]

\* an empty line inside a task body: the loop goes on, the task stays open
BlankLine(st) == [st EXCEPT !.i = @ + 1]

\* a line inside a task body
TaskBodyLine(st, line, trimmedLine) ==
    LET task == st.currentTask[1]
        parsed == parseTaskProperty(line, task)
        old == parseOldChecklistItem(line, task, st.activeListKey)
    IN  IF trimmedLine = "" THEN BlankLine(st)
        ELSE IF StartsWith(trimmedLine, "> ") THEN BlockquoteLine(st, trimmedLine)
        ELSE IF IsDefined(BoldSectionMatch(trimmedLine))
             THEN BoldSectionLine(st, BoldSectionMatch(trimmedLine)[1])
        ELSE IF IsDefined(ChecklistMatch(trimmedLine)) /\ st.activeListKey # ""
             THEN ChecklistLine(st, ChecklistMatch(trimmedLine)[1])
        ELSE IF parsed.key # ""
             THEN [st EXCEPT !.currentTask = Some(parsed.task),
                             !.collectingDescription = FALSE,
                             !.activeListKey =
                                 IF parsed.key \in {"steps", "ac", "verify"}
                                 THEN parsed.key ELSE "",
                             !.i = @ + 1]
        ELSE IF old.ok
             THEN [st EXCEPT !.currentTask = Some(old.task), !.i = @ + 1]
        ELSE IF ImageMatch(trimmedLine)
             THEN [st EXCEPT !.currentTask = Some(AppendDescription(task, trimmedLine)),
                             !.i = @ + 1]
        ELSE IF st.collectingDescription /\ st.activeListKey = ""
             THEN [st EXCEPT !.currentTask = Some(AppendDescription(task, trimmedLine)),
                             !.i = @ + 1]
        ELSE IF IsDefined(task.description) /\ SkipSpaces(line, 1) >= 5 /\ trimmedLine # ""
             THEN [st EXCEPT !.currentTask = Some(AppendDescription(task, trimmedLine)),
                             !.i = @ + 1]
        ELSE BoundaryLine(st)

\* a bug: every `# ` line sets the title
MutParseLineTitleEveryTime(st) ==
    LET line == st.lines[st.i]
        trimmedLine == Trim(line)
    IN  IF StartsWith(trimmedLine, "<!--") /\ EndsWith(trimmedLine, "-->")
        THEN [st EXCEPT !.i = @ + 1]
        ELSE IF StartsWith(trimmedLine, Fence)
        THEN [st EXCEPT !.inCodeBlock = ~@, !.i = @ + 1]
        ELSE IF st.inCodeBlock THEN [st EXCEPT !.i = @ + 1]
        ELSE IF StartsWith(trimmedLine, "# ")
        THEN TitleLine(st, trimmedLine)
        ELSE IF StartsWith(trimmedLine, "## ") THEN ColumnLine(st, trimmedLine)
        ELSE IF isTaskTitle(line, trimmedLine) THEN TaskHeaderLine(st, trimmedLine)
        ELSE IF IsDefined(st.currentTask) /\ st.inTaskBody
        THEN TaskBodyLine(st, line, trimmedLine)
        ELSE [st EXCEPT !.i = @ + 1]

\* one iteration of the for loop, on lines[i]
ParseLine(st) ==
    LET line == st.lines[st.i]
        trimmedLine == Trim(line)
    IN  IF StartsWith(trimmedLine, "<!--") /\ EndsWith(trimmedLine, "-->")
        THEN [st EXCEPT !.i = @ + 1]
        ELSE IF StartsWith(trimmedLine, Fence)
        THEN [st EXCEPT !.inCodeBlock = ~@, !.i = @ + 1]
        ELSE IF st.inCodeBlock THEN [st EXCEPT !.i = @ + 1]
        ELSE IF StartsWith(trimmedLine, "# ") /\ st.title = ""
        THEN TitleLine(st, trimmedLine)
        ELSE IF StartsWith(trimmedLine, "## ") THEN ColumnLine(st, trimmedLine)
        ELSE IF isTaskTitle(line, trimmedLine) THEN TaskHeaderLine(st, trimmedLine)
        ELSE IF IsDefined(st.currentTask) /\ st.inTaskBody
        THEN TaskBodyLine(st, line, trimmedLine)
        ELSE [st EXCEPT !.i = @ + 1]

\* the loop, run to the end of the lines
RECURSIVE ParseLoop(_)
ParseLoop(st) == IF st.i > Len(st.lines) THEN st ELSE ParseLoop(ParseLine(st))

\* the columns after the last task and column are added
FlushedColumns(st) ==
    LET closed == finalizeCurrentTask(st.currentTask, st.currentColumn)
    IN  IF IsDefined(closed) THEN Append(st.columns, closed[1]) ELSE st.columns

\* the tasks of the columns, in column order then task order
RECURSIVE AllTasks(_)
AllTasks(columns) ==
    IF Len(columns) = 0 THEN << >>
    ELSE columns[1].tasks \o AllTasks(Tail(columns))

\* the number of tasks among the first n whose id is not of the form TSK[_-]\d+
RECURSIVE Unassigned(_, _)
Unassigned(tasks, n) ==
    IF n = 0 THEN 0
    ELSE Unassigned(tasks, n - 1) + (IF IsTaskId(tasks[n].id) THEN 0 ELSE 1)

\* the number of tasks in the first c columns
RECURSIVE TasksBefore(_, _)
TasksBefore(columns, c) ==
    IF c = 0 THEN 0 ELSE TasksBefore(columns, c - 1) + Len(columns[c].tasks)

\* the final pass: TSK_<nextId> for every task whose id does not match, in order
AssignIds(columns, nextId) ==
    [c \in 1 .. Len(columns) |->
        [columns[c] EXCEPT !.tasks =
            [t \in 1 .. Len(columns[c].tasks) |->
                LET k == TasksBefore(columns, c - 1) + t
                    task == columns[c].tasks[t]
                IN  IF IsTaskId(task.id) THEN task
                    ELSE [task EXCEPT !.id =
                             "TSK_" \o NumToString(nextId + Unassigned(AllTasks(columns), k - 1))]]]]

\* a bug: the counter returned is the counter read
MutParseResultKeepsCounter(st) ==
    LET columns == FlushedColumns(st)
    IN  [title |-> st.title,
         columns |-> AssignIds(columns, st.nextId),
         nextId |-> st.nextId]

\* the board parseMarkdown returns from the state at the end of the loop
ParseResult(st) ==
    LET columns == FlushedColumns(st)
    IN  [title |-> st.title,
         columns |-> AssignIds(columns, st.nextId),
         nextId |-> st.nextId + Unassigned(AllTasks(columns), Len(AllTasks(columns)))]

\* parseMarkdown(content), with rnd the outcomes of its generateId() calls
parseMarkdown(content, rnd) == ParseResult(ParseLoop(ParserStart(content, rnd)))

(***************************************************************************)
(* KanbanWebviewPanel: the board mutations                                 *)
(***************************************************************************)
\* Array.prototype.splice: the 0-based position a start index denotes in a list of len
SpliceStart(len, start) ==
    IF start < 0 THEN (IF len + start < 0 THEN 0 ELSE len + start)
    ELSE IF start > len THEN len ELSE start

\* list.splice(start, 0, x)
InsertAt(list, start, x) ==
    LET k == SpliceStart(Len(list), start)
    IN  SubSeq(list, 1, k) \o << x >> \o SubSeq(list, k + 1, Len(list))

\* the list after list.splice(index, 1), index 1-based and in range
RemoveAt(list, index) == SubSeq(list, 1, index - 1) \o SubSeq(list, index + 1, Len(list))

\* board.columns.find(col => col.id === columnId): its 1-based index, 0 if none
findColumn(board, columnId) ==
    LET hits == {c \in 1 .. Len(board.columns) : board.columns[c].id = columnId}
    IN  IF hits = {} THEN 0 ELSE Least(hits)

\* column.tasks.findIndex(task => task.id === taskId) + 1
findTaskIndex(tasks, taskId) ==
    LET hits == {t \in 1 .. Len(tasks) : tasks[t].id = taskId}
    IN  IF hits = {} THEN 0 ELSE Least(hits)

\* a bug: the task is inserted at newIndex of the list as it was before the removal
MutMoveTaskInsertsFirst(board, taskId, fromColumnId, toColumnId, newIndex) ==
    LET from == findColumn(board, fromColumnId)
        to == findColumn(board, toColumnId)
        taskIndex == findTaskIndex(board.columns[from].tasks, taskId)
        task == board.columns[from].tasks[taskIndex]
        inserted == [board.columns EXCEPT ![to].tasks = InsertAt(@, newIndex, task)]
        shifted == IF to = from /\ SpliceStart(Len(board.columns[from].tasks), newIndex)
                                      < taskIndex
                   THEN taskIndex + 1 ELSE taskIndex
    IN  IF from = 0 \/ to = 0 THEN board
        ELSE IF taskIndex = 0 THEN board
        ELSE [board EXCEPT !.columns =
                 [inserted EXCEPT ![from].tasks = RemoveAt(@, shifted)]]

moveTask(board, taskId, fromColumnId, toColumnId, newIndex) ==
    LET from == findColumn(board, fromColumnId)
        to == findColumn(board, toColumnId)
        taskIndex == findTaskIndex(board.columns[from].tasks, taskId)
        removed == [board.columns EXCEPT ![from].tasks = RemoveAt(@, taskIndex)]
    IN  IF from = 0 \/ to = 0 THEN board
        ELSE IF taskIndex = 0 THEN board
        ELSE [board EXCEPT !.columns =
                 [removed EXCEPT ![to].tasks =
                     InsertAt(@, newIndex, board.columns[from].tasks[taskIndex])]]

\* a bug: the counter is not advanced
Mut_getNextTaskIdNoIncrement(board) ==
    [id |-> "TSK_" \o NumToString(board.nextId), board |-> board]

\* _getNextTaskId: the id and the board after it
_getNextTaskId(board) ==
    [id |-> "TSK_" \o NumToString(board.nextId),
     board |-> [board EXCEPT !.nextId = @ + 1]]

\* taskData.tags || [], taskData.steps || []
OrEmpty(list) == IF IsDefined(list) THEN list ELSE Some(<< >>)

\* a bug: the id is taken from the counter before the column is looked up
MutAddTaskCountsFirst(board, columnId, taskData) ==
    LET column == findColumn(board, columnId)
        next == _getNextTaskId(board)
        newTask == [id |-> next.id,
                    title |-> taskData.title,
                    description |-> taskData.description,
                    tags |-> OrEmpty(taskData.tags),
                    priority |-> taskData.priority,
                    workload |-> taskData.workload,
                    dueDate |-> taskData.dueDate,
                    defaultExpanded |-> taskData.defaultExpanded,
                    steps |-> OrEmpty(taskData.steps),
                    ac |-> Undefined, verify |-> Undefined, files |-> Undefined]
    IN  IF column = 0 THEN next.board
        ELSE [next.board EXCEPT !.columns[column].tasks = Append(@, newTask)]

addTask(board, columnId, taskData) ==
    LET column == findColumn(board, columnId)
        next == _getNextTaskId(board)
        newTask == [id |-> next.id,
                    title |-> taskData.title,
                    description |-> taskData.description,
                    tags |-> OrEmpty(taskData.tags),
                    priority |-> taskData.priority,
                    workload |-> taskData.workload,
                    dueDate |-> taskData.dueDate,
                    defaultExpanded |-> taskData.defaultExpanded,
                    steps |-> OrEmpty(taskData.steps),
                    ac |-> Undefined, verify |-> Undefined, files |-> Undefined]
    IN  IF column = 0 THEN board
        ELSE [next.board EXCEPT !.columns[column].tasks = Append(@, newTask)]

\* a bug: deleting the task created last gives its number back to the counter
MutDeleteTaskReleasesId(board, taskId, columnId) ==
    LET column == findColumn(board, columnId)
        taskIndex == findTaskIndex(board.columns[column].tasks, taskId)
    IN  IF column = 0 THEN board
        ELSE IF taskIndex = 0 THEN board
        ELSE [board EXCEPT !.columns[column].tasks = RemoveAt(@, taskIndex),
                           !.nextId = IF taskId = "TSK_" \o NumToString(@ - 1)
                                      THEN @ - 1 ELSE @]

deleteTask(board, taskId, columnId) ==
    LET column == findColumn(board, columnId)
        taskIndex == findTaskIndex(board.columns[column].tasks, taskId)
    IN  IF column = 0 THEN board
        ELSE IF taskIndex = 0 THEN board
        ELSE [board EXCEPT !.columns[column].tasks = RemoveAt(@, taskIndex)]

\* a bug: the task is replaced by a task of the submitted fields, not assigned to
MutEditTaskReplacesTask(board, taskId, columnId, taskData) ==
    LET column == findColumn(board, columnId)
        taskIndex == findTaskIndex(board.columns[column].tasks, taskId)
    IN  IF column = 0 THEN board
        ELSE IF taskIndex = 0 THEN board
        ELSE [board EXCEPT !.columns[column].tasks[taskIndex] =
                 [@ EXCEPT !.title = taskData.title,
                           !.description = taskData.description,
                           !.tags = OrEmpty(taskData.tags),
                           !.priority = taskData.priority,
                           !.workload = taskData.workload,
                           !.dueDate = taskData.dueDate,
                           !.defaultExpanded = taskData.defaultExpanded,
                           !.steps = OrEmpty(taskData.steps),
                           !.ac = Undefined,
                           !.verify = Undefined,
                           !.files = Undefined]]

editTask(board, taskId, columnId, taskData) ==
    LET column == findColumn(board, columnId)
        taskIndex == findTaskIndex(board.columns[column].tasks, taskId)
    IN  IF column = 0 THEN board
        ELSE IF taskIndex = 0 THEN board
        ELSE [board EXCEPT !.columns[column].tasks[taskIndex] =
                 [@ EXCEPT !.title = taskData.title,
                           !.description = taskData.description,
                           !.tags = OrEmpty(taskData.tags),
                           !.priority = taskData.priority,
                           !.workload = taskData.workload,
                           !.dueDate = taskData.dueDate,
                           !.defaultExpanded = taskData.defaultExpanded,
                           !.steps = OrEmpty(taskData.steps)]]

\* stepIndex is 0-based, as in the message
updateChecklistItem(board, taskId, columnId, listKey, stepIndex, completed) ==
    LET column == findColumn(board, columnId)
        taskIndex == findTaskIndex(board.columns[column].tasks, taskId)
        checklist == board.columns[column].tasks[taskIndex][listKey]
    IN  IF column = 0 THEN board
        ELSE IF taskIndex = 0 THEN board
        ELSE IF ~IsDefined(checklist) \/ stepIndex < 0 \/ stepIndex >= Len(checklist[1])
        THEN board
        ELSE [board EXCEPT !.columns[column].tasks[taskIndex][listKey] =
                 Some([checklist[1] EXCEPT ![stepIndex + 1].completed = completed])]

updateTaskStep(board, taskId, columnId, stepIndex, completed) ==
    updateChecklistItem(board, taskId, columnId, "steps", stepIndex, completed)

\* newOrder.filter(index => index >= 0 && index < n).map(index => originalSteps[index])
RECURSIVE Reordered(_, _)
Reordered(originalSteps, newOrder) ==
    IF Len(newOrder) = 0 THEN << >>
    ELSE (IF newOrder[1] >= 0 /\ newOrder[1] < Len(originalSteps)
          THEN << originalSteps[newOrder[1] + 1] >> ELSE << >>)
         \o Reordered(originalSteps, Tail(newOrder))

reorderTaskSteps(board, taskId, columnId, newOrder) ==
    LET column == findColumn(board, columnId)
        taskIndex == findTaskIndex(board.columns[column].tasks, taskId)
        steps == board.columns[column].tasks[taskIndex].steps
    IN  IF column = 0 THEN board
        ELSE IF taskIndex = 0 THEN board
        ELSE IF ~IsDefined(steps) THEN board
        ELSE [board EXCEPT !.columns[column].tasks[taskIndex].steps =
                 Some(Reordered(steps[1], newOrder))]

\* id: the outcome of Math.random().toString(36).substr(2, 9)
addColumn(board, title, id) ==
    [board EXCEPT !.columns =
        Append(@, [id |-> id, title |-> title, tasks |-> << >>, archived |-> Undefined])]

\* fromIndex, toIndex 0-based.  columns.splice(fromIndex, 1) removes nothing when
\* fromIndex is not below the length, and [0] of the empty result is undefined,
\* which columns.splice(toIndex, 0, column) then inserts as an element
moveColumn(board, fromIndex, toIndex) ==
    LET columns == board.columns
        start == SpliceStart(Len(columns), fromIndex)
        removes == start < Len(columns)
        column == IF removes THEN columns[start + 1] ELSE Undefined
        rest == IF removes THEN RemoveAt(columns, start + 1) ELSE columns
    IN  IF fromIndex = toIndex THEN board
        ELSE [board EXCEPT !.columns = InsertAt(rest, toIndex, column)]

toggleColumnArchive(board, columnId, archived) ==
    LET column == findColumn(board, columnId)
    IN  IF column = 0 THEN board
        ELSE [board EXCEPT !.columns[column].archived = Some(archived)]

(***************************************************************************)
(* State                                                                   *)
(***************************************************************************)
VARIABLES
    board,          \* KanbanWebviewPanel._board (optional)
    document,       \* the text of KanbanWebviewPanel._document
    taskHeader,     \* the setting markdown-kanban.taskHeader: "title" or "list"
    selfSave,       \* "within" / "elapsed": Date.now() - _lastSelfSaveTime < 1500 or not
    saved,          \* history: the document text was written by saveToMarkdown
    handedOut,      \* history: the numbers n of the ids TSK_n the allocator handed out
    reused,         \* history: a number was handed out that had been handed out before
    baseId,         \* history: board.nextId after the last load
    created,        \* history: the ids addTask gave to new tasks since the last load
    mutations,      \* history: the number of mutation messages handled
    pendingSaves,   \* the saveToMarkdown calls in flight, oldest first
    documentVersion,\* the version of the document: the number of edits applied to it
    prefixBoards,   \* history: the board after the load and after each mutation message
    written,        \* history: the texts that edits wrote to the document
    posted,         \* history: the boards posted to the webview
    pc,             \* the step of a parse / serialize run
    input,          \* the input of the run: a text, a board or a task content
    pst,            \* the parser state of a parseMarkdown call in progress (optional)
    outBoard,       \* the board parseMarkdown returned (optional)
    outText,        \* the text generateMarkdown returned (optional)
    outBoard2,      \* the board of the second parse (optional)
    outText2        \* the text of the second serialization (optional)

asyncVars == << pendingSaves, documentVersion, prefixBoards, written, posted >>

panelVars == << board, document, taskHeader, selfSave, saved,
                handedOut, reused, baseId, created, mutations,
                pendingSaves, documentVersion, prefixBoards, written, posted >>

runVars == << pc, input, pst, outBoard, outText, outBoard2, outText2 >>

vars == << board, document, taskHeader, selfSave, saved,
           handedOut, reused, baseId, created, mutations,
           pendingSaves, documentVersion, prefixBoards, written, posted,
           pc, input, pst, outBoard, outText, outBoard2, outText2 >>

\* no save in flight, and no history of saves
NoSaves ==
    /\ pendingSaves = << >>
    /\ documentVersion = 1
    /\ prefixBoards = << >>
    /\ written = {}
    /\ posted = {}

\* no panel: the state of the panel variables in a run of the parser alone
NoPanel ==
    /\ NoSaves
    /\ board = Undefined
    /\ document = ""
    /\ taskHeader = "title"
    /\ selfSave = "elapsed"
    /\ saved = FALSE
    /\ handedOut = {}
    /\ reused = FALSE
    /\ baseId = 1
    /\ created = << >>
    /\ mutations = 0

\* no run: the state of the run variables in the panel's specification
NoRun ==
    /\ pc = "idle"
    /\ input = Undefined
    /\ pst = Undefined
    /\ outBoard = Undefined
    /\ outText = Undefined
    /\ outBoard2 = Undefined
    /\ outText2 = Undefined

(***************************************************************************)
(* Bounds and inputs                                                       *)
(***************************************************************************)
\* the number of mutation messages of a behaviour
MaxMutations == 2

\* outcomes of the successive Math.random() ids of one parse: distinct, or all equal
RandomOutcomes == { << "k3x9a0b1c", "p0q7zz81m", "w5e2r4t6y" >>, << "d00d1e5aa" >> }

\* documents a panel is opened on
PanelDocs ==
    { "",
      "<!-- next-id: 3 -->\n# B\n\n## Todo\n\n### TSK_1 a\n\n### TSK_2 b\n\n## Done\n\n",
      "## Todo\n### TSK_1 a\n### b\n",
      "## Todo\n- a\n  - steps:\n      - [ ] s1\n      - [x] s2\n- b\n## Done [Archived]\n" }

\* the task data the task form of the webview submits
TaskDatas ==
    { [title |-> "New", description |-> Some(""), tags |-> Some(<< >>),
       priority |-> Undefined, workload |-> Undefined, dueDate |-> Undefined,
       defaultExpanded |-> Some(FALSE), steps |-> Some(<< >>)],
      [title |-> "Fix", description |-> Some("d"), tags |-> Some(<< "x" >>),
       priority |-> Some("high"), workload |-> Undefined, dueDate |-> Undefined,
       defaultExpanded |-> Some(TRUE),
       steps |-> Some(<< [text |-> "s", completed |-> FALSE] >>)] }

\* the ids a message can carry: those of the board, and one the board does not hold
ColumnIdsOf(b) == {b.columns[c].id : c \in 1 .. Len(b.columns)} \cup {"gone"}

TaskIdsOf(b) == {AllTasks(b.columns)[t].id : t \in 1 .. Len(AllTasks(b.columns))} \cup {"gone"}

\* the number n of an id TSK_n
IdNumber(id) == ParseInt(Substring(id, 4))

(***************************************************************************)
(* The panel: loadMarkdownFile and the mutation messages                   *)
(***************************************************************************)
\* the greatest newIndex / stepIndex a message carries
MaxIndex == 1

StepOrders == { << 0 >>, << 0, 1 >>, << 1, 0 >> }

ColumnTitles == { "Later" }

Init ==
    /\ board = Undefined
    /\ document \in PanelDocs
    /\ taskHeader \in {"title", "list"}
    /\ selfSave = "elapsed"
    /\ saved = FALSE
    /\ handedOut = {}
    /\ reused = FALSE
    /\ baseId = 1
    /\ created = << >>
    /\ mutations = 0
    /\ NoSaves
    /\ NoRun

\* loadMarkdownFile(document): skipped within 1.5 s of a self-save, else the board
\* is replaced by the parse of the document's text
LoadMarkdownFile ==
    IF selfSave = "within" THEN UNCHANGED vars
    ELSE \E rnd \in RandomOutcomes :
            LET parsed == parseMarkdown(document, rnd)
                new == ParserStart(document, rnd).nextId .. parsed.nextId - 1
            IN  /\ board' = Some(parsed)
                /\ handedOut' = handedOut \cup new
                /\ reused' = (reused \/ (saved /\ new \cap handedOut # {}))
                /\ baseId' = parsed.nextId
                /\ created' = << >>
                /\ UNCHANGED << document, taskHeader, selfSave, saved, mutations >>
                /\ UNCHANGED asyncVars
                /\ UNCHANGED runVars

\* 1.5 s pass without a self-save
TimeElapses ==
    /\ selfSave = "within"
    /\ selfSave' = "elapsed"
    /\ UNCHANGED << board, document, taskHeader, saved, handedOut, reused, baseId,
                    created, mutations >>
    /\ UNCHANGED asyncVars
    /\ UNCHANGED runVars

\* performAction(action), with newBoard the board after action(): the mutation,
\* then saveToMarkdown writes the serialization of the board to the document
performAction(newBoard) ==
    /\ IsDefined(board)
    /\ mutations < MaxMutations
    /\ board' = Some(newBoard)
    /\ selfSave' = "within"
    /\ document' = generateMarkdown(newBoard, taskHeader)
    /\ saved' = TRUE
    /\ mutations' = mutations + 1
    /\ UNCHANGED taskHeader
    /\ UNCHANGED asyncVars
    /\ UNCHANGED runVars

MoveTask ==
    /\ IsDefined(board)
    /\ \E taskId \in TaskIdsOf(board[1]), fromColumnId \in ColumnIdsOf(board[1]),
          toColumnId \in ColumnIdsOf(board[1]), newIndex \in 0 .. MaxIndex :
          performAction(moveTask(board[1], taskId, fromColumnId, toColumnId, newIndex))
    /\ UNCHANGED << handedOut, reused, baseId, created >>

AddTask ==
    /\ IsDefined(board)
    /\ \E columnId \in ColumnIdsOf(board[1]), taskData \in TaskDatas :
          LET newBoard == addTask(board[1], columnId, taskData)
              column == findColumn(board[1], columnId)
              id == newBoard.columns[column].tasks[Len(newBoard.columns[column].tasks)].id
          IN  /\ performAction(newBoard)
              /\ IF column = 0
                 THEN UNCHANGED << handedOut, reused, created >>
                 ELSE /\ created' = Append(created, id)
                      /\ handedOut' = handedOut \cup {IdNumber(id)}
                      /\ reused' = (reused \/ IdNumber(id) \in handedOut)
    /\ UNCHANGED baseId

DeleteTask ==
    /\ IsDefined(board)
    /\ \E taskId \in TaskIdsOf(board[1]), columnId \in ColumnIdsOf(board[1]) :
          performAction(deleteTask(board[1], taskId, columnId))
    /\ UNCHANGED << handedOut, reused, baseId, created >>

EditTask ==
    /\ IsDefined(board)
    /\ \E taskId \in TaskIdsOf(board[1]), columnId \in ColumnIdsOf(board[1]),
          taskData \in TaskDatas :
          performAction(editTask(board[1], taskId, columnId, taskData))
    /\ UNCHANGED << handedOut, reused, baseId, created >>

UpdateTaskStep ==
    /\ IsDefined(board)
    /\ \E taskId \in TaskIdsOf(board[1]), columnId \in ColumnIdsOf(board[1]),
          stepIndex \in 0 .. MaxIndex, completed \in BOOLEAN :
          performAction(updateTaskStep(board[1], taskId, columnId, stepIndex, completed))
    /\ UNCHANGED << handedOut, reused, baseId, created >>

UpdateChecklistItem ==
    /\ IsDefined(board)
    /\ \E taskId \in TaskIdsOf(board[1]), columnId \in ColumnIdsOf(board[1]),
          listKey \in {"steps", "ac"},
          stepIndex \in 0 .. MaxIndex, completed \in BOOLEAN :
          performAction(updateChecklistItem(board[1], taskId, columnId, listKey,
                                            stepIndex, completed))
    /\ UNCHANGED << handedOut, reused, baseId, created >>

ReorderTaskSteps ==
    /\ IsDefined(board)
    /\ \E taskId \in TaskIdsOf(board[1]), columnId \in ColumnIdsOf(board[1]),
          newOrder \in StepOrders :
          performAction(reorderTaskSteps(board[1], taskId, columnId, newOrder))
    /\ UNCHANGED << handedOut, reused, baseId, created >>

AddColumn ==
    /\ IsDefined(board)
    /\ \E title \in ColumnTitles, rnd \in RandomOutcomes :
          performAction(addColumn(board[1], title, rnd[1]))
    /\ UNCHANGED << handedOut, reused, baseId, created >>

MoveColumn ==
    /\ IsDefined(board)
    /\ \E fromIndex \in 0 .. Len(board[1].columns) - 1,
          toIndex \in 0 .. Len(board[1].columns) - 1 :
          performAction(moveColumn(board[1], fromIndex, toIndex))
    /\ UNCHANGED << handedOut, reused, baseId, created >>

ToggleColumnArchive ==
    /\ IsDefined(board)
    /\ \E columnId \in ColumnIdsOf(board[1]), archived \in BOOLEAN :
          performAction(toggleColumnArchive(board[1], columnId, archived))
    /\ UNCHANGED << handedOut, reused, baseId, created >>

Next ==
    \/ LoadMarkdownFile
    \/ TimeElapses
    \/ MoveTask
    \/ AddTask
    \/ DeleteTask
    \/ EditTask
    \/ UpdateTaskStep
    \/ UpdateChecklistItem
    \/ ReorderTaskSteps
    \/ AddColumn
    \/ MoveColumn
    \/ ToggleColumnArchive

Spec == Init /\ [][Next]_vars

(***************************************************************************)
(* Properties of the panel                                                 *)
(***************************************************************************)
\* the ids of the tasks of a board, in column order then task order
BoardTaskIds(b) == [t \in 1 .. Len(AllTasks(b.columns)) |-> AllTasks(b.columns)[t].id]

\* no id occurs at two places of the sequence
Distinct(ids) == \A i, j \in 1 .. Len(ids) : ids[i] = ids[j] => i = j

\* C4: in every reachable state of the panel no two tasks of the board have the
\* same id
C4_UniqueTaskIds == IsDefined(board) => Distinct(BoardTaskIds(board[1]))

\* a step of the panel does not lower board.nextId
C5_StepKeepsCounter ==
    (IsDefined(board) /\ IsDefined(board')) => board'[1].nextId >= board[1].nextId

\* the text a save writes for the board is read back with a counter that is not lower
C5_SavedCounterReadBack ==
    IsDefined(board) =>
        \A rnd \in RandomOutcomes :
            parseMarkdown(generateMarkdown(board[1], taskHeader), rnd).nextId
                >= board[1].nextId

\* C5: nextId never decreases: no step of the panel (a mutation, a save, a reload)
\* lowers board.nextId, and for every reachable board b
\* parseMarkdown(generateMarkdown(b)).nextId >= b.nextId
C5_NextIdNeverDecreases == [][C5_StepKeepsCounter]_vars /\ []C5_SavedCounterReadBack

\* C5 witness: tasks were added, the board was saved and then loaded again from the
\* saved text, with the counter above that of every opened document
C5_Witness ==
    /\ IsDefined(board)
    /\ saved
    /\ selfSave = "elapsed"
    /\ created = << >>
    /\ baseId > 3
    /\ board[1].nextId = baseId

\* C6: a number the allocator (addTask, or the final pass of parseMarkdown on the
\* saved text) has handed out is never handed out again, and board.nextId is
\* greater than every number handed out
C6_IdsNeverReused ==
    /\ ~reused
    /\ IsDefined(board) => \A n \in handedOut : n < board[1].nextId

\* C6 witness: a task the allocator numbered was deleted, the board saved and
\* loaded again
C6_Witness ==
    /\ IsDefined(board)
    /\ saved
    /\ created = << >>
    /\ mutations = MaxMutations
    /\ \E n \in handedOut :
          "TSK_" \o NumToString(n) \notin {BoardTaskIds(board[1])[t] :
                                              t \in 1 .. Len(BoardTaskIds(board[1]))}

\* C7: from a board loaded with nextId = k, after n addTask requests on existing
\* columns, whatever else was requested, nextId = k + n and the created tasks
\* carry TSK_k .. TSK_(k+n-1) in request order
C7_CounterCountsCreations ==
    IsDefined(board) =>
        /\ board[1].nextId = baseId + Len(created)
        /\ \A i \in 1 .. Len(created) :
              created[i] = "TSK_" \o NumToString(baseId + i - 1)

\* C7 witness: two tasks created since the load
C7_Witness ==
    /\ IsDefined(board)
    /\ Len(created) = 2
    /\ board[1].nextId = baseId + 2

(***************************************************************************)
(* Round trip of a board: generateMarkdown, parseMarkdown, generateMarkdown *)
(***************************************************************************)
\* the values a field of a valid task takes: absent, or one value
RTFieldValues ==
    [description |-> {Undefined, Some("d"), Some("a\nb"), Some("a\n\nb")},
     tags |-> {Undefined, Some(<< "x", "y" >>)},
     priority |-> {Undefined, Some("high")},
     workload |-> {Undefined, Some("Hard")},
     dueDate |-> {Undefined, Some("2024-01-01")},
     defaultExpanded |-> {Undefined, Some(TRUE)},
     steps |-> {Undefined, Some(<< [text |-> "s", completed |-> TRUE] >>)},
     files |-> {Undefined, Some("a.ts")}]

RTTasks ==
    {[id |-> "TSK_1", title |-> "T", description |-> d, tags |-> tg, priority |-> p,
      workload |-> w, dueDate |-> du, defaultExpanded |-> e, steps |-> st,
      ac |-> Undefined, verify |-> Undefined, files |-> f] :
        d \in RTFieldValues.description, tg \in RTFieldValues.tags,
        p \in RTFieldValues.priority, w \in RTFieldValues.workload,
        du \in RTFieldValues.dueDate, e \in RTFieldValues.defaultExpanded,
        st \in RTFieldValues.steps, f \in RTFieldValues.files}

\* valid boards: one column, the task under test, and possibly a task after it
RTBoards ==
    {[title |-> "B", nextId |-> 3,
      columns |-> << [id |-> "c1", title |-> "Todo", archived |-> Some(a),
                      tasks |-> << t >> \o rest] >>] :
        t \in RTTasks, a \in BOOLEAN,
        rest \in {<< >>, << NewTask("TSK_2", "U") >>}}

InitRT ==
    /\ NoPanel
    /\ pc = "board"
    /\ input \in {Some(b) : b \in RTBoards}
    /\ pst = Undefined
    /\ outBoard = Undefined
    /\ outText = Undefined
    /\ outBoard2 = Undefined
    /\ outText2 = Undefined

\* t = generateMarkdown(b)
Serialize ==
    /\ pc = "board"
    /\ outText' = Some(generateMarkdown(input[1], taskHeader))
    /\ pc' = "serialized"
    /\ UNCHANGED << input, pst, outBoard, outBoard2, outText2 >>
    /\ UNCHANGED panelVars

\* parseMarkdown(t)
Parse ==
    /\ pc = "serialized"
    /\ \E rnd \in RandomOutcomes : outBoard' = Some(parseMarkdown(outText[1], rnd))
    /\ pc' = "parsed"
    /\ UNCHANGED << input, pst, outText, outBoard2, outText2 >>
    /\ UNCHANGED panelVars

\* generateMarkdown(parseMarkdown(t))
Reserialize ==
    /\ pc = "parsed"
    /\ outText2' = Some(generateMarkdown(outBoard[1], taskHeader))
    /\ pc' = "reserialized"
    /\ UNCHANGED << input, pst, outBoard, outText, outBoard2 >>
    /\ UNCHANGED panelVars

NextRT ==
    \/ Serialize
    \/ Parse
    \/ Reserialize

SpecRT == InitRT /\ [][NextRT]_vars

\* structural equality: an absent field equals an empty one
OrEmptyString(o) == IF IsDefined(o) THEN o[1] ELSE ""

OrEmptyList(o) == IF IsDefined(o) THEN o[1] ELSE << >>

SameTask(a, b) ==
    /\ a.id = b.id
    /\ a.title = b.title
    /\ OrEmptyString(a.description) = OrEmptyString(b.description)
    /\ OrEmptyList(a.tags) = OrEmptyList(b.tags)
    /\ OrEmptyString(a.priority) = OrEmptyString(b.priority)
    /\ OrEmptyString(a.workload) = OrEmptyString(b.workload)
    /\ OrEmptyString(a.dueDate) = OrEmptyString(b.dueDate)
    /\ TruthyBool(a.defaultExpanded) = TruthyBool(b.defaultExpanded)
    /\ OrEmptyList(a.steps) = OrEmptyList(b.steps)
    /\ OrEmptyList(a.ac) = OrEmptyList(b.ac)
    /\ OrEmptyList(a.verify) = OrEmptyList(b.verify)
    /\ OrEmptyString(a.files) = OrEmptyString(b.files)

SameColumn(a, b) ==
    /\ a.title = b.title
    /\ TruthyBool(a.archived) = TruthyBool(b.archived)
    /\ Len(a.tasks) = Len(b.tasks)
    /\ \A t \in 1 .. Len(a.tasks) : SameTask(a.tasks[t], b.tasks[t])

SameBoard(a, b) ==
    /\ a.title = b.title
    /\ a.nextId = b.nextId
    /\ Len(a.columns) = Len(b.columns)
    /\ \A c \in 1 .. Len(a.columns) : SameColumn(a.columns[c], b.columns[c])

\* C1: for every valid board b, parseMarkdown(generateMarkdown(b)) is structurally
\* equal to b (the ids of b are canonical; column ids are not compared)
C1_ParseOfSerializedIsBoard ==
    pc \in {"parsed", "reserialized"} => SameBoard(input[1], outBoard[1])

\* C2: for every text t = generateMarkdown(b) of a board b with canonical ids,
\* generateMarkdown(parseMarkdown(t)) = t
C2_SerializedTextIsStable ==
    pc = "reserialized" => outText2[1] = outText[1]

(***************************************************************************)
(* Load of a document and two save cycles, the parse taken line by line    *)
(***************************************************************************)
\* the number of lines of a document after its first column header
MaxLines == 3

LineVocabulary ==
    { "### TSK-2 a", "### TSK_1 b", "- c", "  - id: TSKx", "  - due: 2024",
      "  - desc: hello", "> x, y | high", "text", "**Steps:**", "- [x] s1",
      "<!-- next-id: 2 -->", "", "## Done [Archived]", "# B" }

DocLines == UNION {[1 .. k -> LineVocabulary] : k \in 1 .. MaxLines}

DocText(lines) == "## Todo\n" \o Join(lines, "\n") \o "\n"

Docs == {DocText(lines) : lines \in DocLines}

InitDoc ==
    /\ NoPanel
    /\ pc = "text"
    /\ input \in {Some(t) : t \in Docs}
    /\ pst = Undefined
    /\ outBoard = Undefined
    /\ outText = Undefined
    /\ outBoard2 = Undefined
    /\ outText2 = Undefined

\* parseMarkdown(t) up to the loop
ParseStart ==
    /\ pc = "text"
    /\ \E rnd \in RandomOutcomes : pst' = Some(ParserStart(input[1], rnd))
    /\ pc' = "parsing"
    /\ UNCHANGED << input, outBoard, outText, outBoard2, outText2 >>
    /\ UNCHANGED panelVars

\* one iteration of the loop
ParseStep ==
    /\ pc = "parsing"
    /\ pst[1].i <= Len(pst[1].lines)
    /\ pst' = Some(ParseLine(pst[1]))
    /\ UNCHANGED << pc, input, outBoard, outText, outBoard2, outText2 >>
    /\ UNCHANGED panelVars

\* the end of the loop: flush, id pass, return
ParseReturn ==
    /\ pc = "parsing"
    /\ pst[1].i > Len(pst[1].lines)
    /\ outBoard' = Some(ParseResult(pst[1]))
    /\ pc' = "loaded"
    /\ UNCHANGED << input, pst, outText, outBoard2, outText2 >>
    /\ UNCHANGED panelVars

\* s1 = generateMarkdown(parseMarkdown(t))
Save ==
    /\ pc = "loaded"
    /\ outText' = Some(generateMarkdown(outBoard[1], taskHeader))
    /\ pc' = "saved"
    /\ UNCHANGED << input, pst, outBoard, outBoard2, outText2 >>
    /\ UNCHANGED panelVars

\* parseMarkdown(s1)
Reload ==
    /\ pc = "saved"
    /\ \E rnd \in RandomOutcomes : outBoard2' = Some(parseMarkdown(outText[1], rnd))
    /\ pc' = "reloaded"
    /\ UNCHANGED << input, pst, outBoard, outText, outText2 >>
    /\ UNCHANGED panelVars

\* s2 = generateMarkdown(parseMarkdown(s1))
SaveAgain ==
    /\ pc = "reloaded"
    /\ outText2' = Some(generateMarkdown(outBoard2[1], taskHeader))
    /\ pc' = "savedAgain"
    /\ UNCHANGED << input, pst, outBoard, outText, outBoard2 >>
    /\ UNCHANGED panelVars

NextDoc ==
    \/ ParseStart
    \/ ParseStep
    \/ ParseReturn
    \/ Save
    \/ Reload
    \/ SaveAgain

SpecDoc == InitDoc /\ [][NextDoc]_vars

\* C3: for every text t, with s1 = generateMarkdown(parseMarkdown(t)) and
\* s2 = generateMarkdown(parseMarkdown(s1)), s2 = s1
C3_SecondSaveIsIdentical ==
    pc = "savedAgain" => outText2[1] = outText[1]

\* the steps the loop can still take from a parser state: two for every line not
\* yet consumed, and one more while a task is open
StepsLeft(st) ==
    2 * (Len(st.lines) + 1 - st.i)
    + (IF IsDefined(st.currentTask) /\ st.inTaskBody THEN 1 ELSE 0)

\* a step of the loop either consumes the line (i advances by one) or is the
\* pushback: i stays, a task was open before the step and none is open after it;
\* either way fewer steps are left
C14_LineStep ==
    (pc = "parsing" /\ pc' = "parsing") =>
        /\ \/ pst'[1].i = pst[1].i + 1
           \/ /\ pst'[1].i = pst[1].i
              /\ IsDefined(pst[1].currentTask) /\ pst[1].inTaskBody
              /\ ~IsDefined(pst'[1].currentTask) /\ ~pst'[1].inTaskBody
        /\ pst'[1].lines = pst[1].lines
        /\ StepsLeft(pst'[1]) < StepsLeft(pst[1])
        /\ StepsLeft(pst'[1]) >= 0

\* the call returns a board from the end of the lines
C14_ReturnsAtEnd ==
    (pc = "parsing" /\ pc' = "loaded") =>
        /\ pst[1].i = Len(pst[1].lines) + 1
        /\ IsDefined(outBoard')
        /\ DOMAIN outBoard'[1] = {"title", "columns", "nextId"}

\* C14: parseMarkdown is total and terminates: every step of the loop lowers the
\* number of steps left, so the loop reaches the end of the lines, where the call
\* returns a board; a step that does not consume its line closes the open task, and
\* the line presented again with no task open is consumed, so a line is examined at
\* most twice
C14_ParseTerminates == [][C14_LineStep /\ C14_ReturnsAtEnd]_vars

\* C14 witness: the loop stands a second time on the line `text`, which closed the
\* task of the header before it and is presented again with no task open
C14_Witness ==
    /\ pc = "parsing"
    /\ pst[1].i = 3
    /\ pst[1].lines[2] = "### TSK_1 b"
    /\ pst[1].lines[3] = "text"
    /\ ~IsDefined(pst[1].currentTask)
    /\ Len(pst[1].currentColumn[1].tasks) = 1

\* TSK<sep><digits>
HasIdForm(id, sep) ==
    /\ Len(id) >= 5
    /\ Slice(id, 1, 3) = "TSK"
    /\ Ch(id, 4) = sep
    /\ \A k \in 5 .. Len(id) : IsDigit(Ch(id, k))

\* the header lines of a text written with the `### ` header style
HeaderLines(text) == SelectSeq(Split(text, "\n"), LAMBDA l : StartsWith(l, "### "))

\* C8 as stated: every task id of parseMarkdown(t) has the form TSK_<integer>
C8_IdsAreUnderscoreForm ==
    pc \in {"loaded", "saved"} =>
        \A t \in 1 .. Len(AllTasks(outBoard[1].columns)) :
            HasIdForm(AllTasks(outBoard[1].columns)[t].id, "_")

\* C8: every task id of parseMarkdown(t) has the form TSK_<integer> or
\* TSK-<integer>, and generateMarkdown(parseMarkdown(t)) writes each task's header
\* with exactly that id as its prefix
C8_IdsAreOfATaskIdForm ==
    pc = "saved" =>
        LET tasks == AllTasks(outBoard[1].columns)
            headers == HeaderLines(outText[1])
        IN  /\ \A t \in 1 .. Len(tasks) :
                  HasIdForm(tasks[t].id, "_") \/ HasIdForm(tasks[t].id, "-")
            /\ Len(headers) = Len(tasks)
            /\ \A t \in 1 .. Len(tasks) :
                  headers[t] = "### " \o tasks[t].id \o " " \o tasks[t].title

\* C8 witness: a document with a header id TSK-2 and a legacy id TSKx was loaded
\* and saved; the first id is kept and the second replaced
C8_Witness ==
    /\ pc = "saved"
    /\ IndexOf(input[1], "### TSK-2 a", 1) # 0
    /\ IndexOf(input[1], "  - id: TSKx", 1) # 0
    /\ Len(AllTasks(outBoard[1].columns)) = 2
    /\ AllTasks(outBoard[1].columns)[1].id = "TSK-2"
    /\ HasIdForm(AllTasks(outBoard[1].columns)[2].id, "_")

(***************************************************************************)
(* One task written in the new dialect and in the legacy dialect           *)
(***************************************************************************)
\* what a task holds; an empty list is a part the document leaves out
TaskContents ==
    [counter : {3, 20},
     n : {1, 12},
     title : {"Write spec"},
     tags : {<< >>, << "backend", "urgent" >>, << "a" >>},
     priority : {"", "low", "medium", "high"},
     description : {<< >>, << "This needs doing." >>, << "l1", "l2" >>},
     steps : {<< >>,
              << [text |-> "outline", completed |-> TRUE],
                 [text |-> "write", completed |-> FALSE] >>,
              << [text |-> "s", completed |-> FALSE] >>}]

\* the content of the concrete scenario
ScenarioContent ==
    [counter |-> 3, n |-> 1, title |-> "Write spec",
     tags |-> << "backend", "urgent" >>, priority |-> "high",
     description |-> << "This needs doing." >>,
     steps |-> << [text |-> "outline", completed |-> TRUE],
                  [text |-> "write", completed |-> FALSE] >>]

\* the lines of a list, each followed by a line end
RECURSIVE LinesText(_)
LinesText(lines) ==
    IF Len(lines) = 0 THEN "" ELSE lines[1] \o "\n" \o LinesText(Tail(lines))

ItemLines(items, indent) ==
    [k \in 1 .. Len(items) |->
        indent \o (IF items[k].completed THEN "- [x] " ELSE "- [ ] ") \o items[k].text]

DocHead(c) == "<!-- next-id: " \o NumToString(c.counter) \o " -->\n# My Board\n## Todo\n"

\* the task in the new dialect: header with id, blockquote line, blank line,
\* description lines, **Steps:** and its items
NewDialectDoc(c) ==
    DocHead(c)
    \o "### TSK_" \o NumToString(c.n) \o " " \o c.title \o "\n"
    \o (IF Len(c.tags) > 0 /\ c.priority # ""
        THEN "> " \o Join(c.tags, ", ") \o " | " \o c.priority \o "\n"
        ELSE IF Len(c.tags) > 0 THEN "> " \o Join(c.tags, ", ") \o "\n"
        ELSE IF c.priority # "" THEN "> " \o c.priority \o "\n"
        ELSE "")
    \o (IF Len(c.description) > 0 THEN "\n" \o LinesText(c.description) ELSE "")
    \o (IF Len(c.steps) > 0
        THEN "**Steps:**\n" \o LinesText(ItemLines(c.steps, "")) ELSE "")

\* the task in the legacy dialect: indented properties, items indented by six
\* spaces, desc with continuation lines indented by four
LegacyDoc(c) ==
    DocHead(c)
    \o "- " \o c.title \o "\n"
    \o "  - id: TSK_" \o NumToString(c.n) \o "\n"
    \o (IF Len(c.tags) > 0 THEN "  - tags: [" \o Join(c.tags, ", ") \o "]\n" ELSE "")
    \o (IF c.priority # "" THEN "  - priority: " \o c.priority \o "\n" ELSE "")
    \o (IF Len(c.steps) > 0
        THEN "  - steps:\n" \o LinesText(ItemLines(c.steps, "      ")) ELSE "")
    \o (IF Len(c.description) > 0
        THEN "  - desc: " \o c.description[1] \o "\n"
             \o LinesText([k \in 1 .. Len(c.description) - 1 |->
                              "    " \o c.description[k + 1]])
        ELSE "")

InitDialect ==
    /\ NoPanel
    /\ pc = "content"
    /\ input \in {Some(c) : c \in TaskContents}
    /\ pst = Undefined
    /\ outBoard = Undefined
    /\ outText = Undefined
    /\ outBoard2 = Undefined
    /\ outText2 = Undefined

\* parseMarkdown of the new-dialect document
ParseNew ==
    /\ pc = "content"
    /\ outText' = Some(NewDialectDoc(input[1]))
    /\ \E rnd \in RandomOutcomes :
          outBoard' = Some(parseMarkdown(NewDialectDoc(input[1]), rnd))
    /\ pc' = "parsedNew"
    /\ UNCHANGED << input, pst, outBoard2, outText2 >>
    /\ UNCHANGED panelVars

\* parseMarkdown of the legacy document
ParseLegacy ==
    /\ pc = "parsedNew"
    /\ outText2' = Some(LegacyDoc(input[1]))
    /\ \E rnd \in RandomOutcomes :
          outBoard2' = Some(parseMarkdown(LegacyDoc(input[1]), rnd))
    /\ pc' = "parsedBoth"
    /\ UNCHANGED << input, pst, outBoard, outText >>
    /\ UNCHANGED panelVars

NextDialect ==
    \/ ParseNew
    \/ ParseLegacy

SpecDialect == InitDialect /\ [][NextDialect]_vars

\* the block of C9: every part is present
FullBlock(c) ==
    Len(c.tags) > 0 /\ c.priority # "" /\ Len(c.description) > 0 /\ Len(c.steps) > 0

\* C9: a new-dialect block of header, blockquote line, description lines and
\* **Steps:** items parses to exactly one task with that id, title, tags, priority,
\* description and steps, under the board title of the `# ` line, in column Todo,
\* with nextId as the next-id comment gives it
C9_NewDialectTask ==
    (pc \in {"parsedNew", "parsedBoth"} /\ FullBlock(input[1])) =>
        LET c == input[1]
            b == outBoard[1]
        IN  /\ b.title = "My Board"
            /\ b.nextId = c.counter
            /\ Len(b.columns) = 1
            /\ b.columns[1].title = "Todo"
            /\ ~TruthyBool(b.columns[1].archived)
            /\ Len(b.columns[1].tasks) = 1
            /\ LET task == b.columns[1].tasks[1]
               IN  /\ task.id = "TSK_" \o NumToString(c.n)
                   /\ task.title = c.title
                   /\ task.tags = Some(c.tags)
                   /\ task.priority = Some(c.priority)
                   /\ task.description = Some(Join(c.description, "\n"))
                   /\ task.steps = Some(c.steps)

\* C9 witness: the concrete scenario was parsed
C9_Witness ==
    /\ pc = "parsedNew"
    /\ input[1] = ScenarioContent
    /\ outText[1] = "<!-- next-id: 3 -->\n# My Board\n## Todo\n### TSK_1 Write spec\n"
                    \o "> backend, urgent | high\n\nThis needs doing.\n**Steps:**\n"
                    \o "- [x] outline\n- [ ] write\n"
    /\ outBoard[1].columns[1].tasks[1].description = Some("This needs doing.")

\* the shape of a task without its id
SameTaskShape(a, b) ==
    /\ a.title = b.title
    /\ OrEmptyString(a.description) = OrEmptyString(b.description)
    /\ OrEmptyList(a.tags) = OrEmptyList(b.tags)
    /\ OrEmptyString(a.priority) = OrEmptyString(b.priority)
    /\ OrEmptyList(a.steps) = OrEmptyList(b.steps)
    /\ OrEmptyList(a.ac) = OrEmptyList(b.ac)
    /\ OrEmptyList(a.verify) = OrEmptyList(b.verify)

SameBoardShape(a, b) ==
    /\ Len(a.columns) = Len(b.columns)
    /\ \A k \in 1 .. Len(a.columns) :
          /\ a.columns[k].title = b.columns[k].title
          /\ Len(a.columns[k].tasks) = Len(b.columns[k].tasks)
          /\ \A t \in 1 .. Len(a.columns[k].tasks) :
                SameTaskShape(a.columns[k].tasks[t], b.columns[k].tasks[t])

\* C10: the legacy document of a task parses to the same board shape (columns,
\* task order, titles, tags, priority, checklists, description) as the new-dialect
\* document of the same task
C10_LegacySameAsNewDialect ==
    pc = "parsedBoth" => SameBoardShape(outBoard[1], outBoard2[1])

(***************************************************************************)
(* A document with a fenced code block, and the same document without the  *)
(* lines inside the fence                                                  *)
(***************************************************************************)
\* the number of lines between the opening and the closing fence line
MaxFenced == 2

\* the lines before the opening fence line: the place the block stands in
FenceContexts ==
    { << "## Todo" >>,
      << "## Todo", "### TSK_1 a" >>,
      << "## Todo", "### TSK_1 a", "> x | low" >>,
      << "## Todo", "### TSK_1 a", "**Steps:**" >>,
      << "## Todo", "- a", "  - desc: d" >> }

\* lines inside the fence: none of them starts with the fence marker
FencedVocabulary ==
    { "# Title", "## Col", "### TSK_5 inner", "> y | high", "- [ ] item",
      "  - due: 2024", "text", "<!-- next-id: 9 -->" }

FencedLines == UNION {[1 .. k -> FencedVocabulary] : k \in 1 .. MaxFenced}

\* the lines after the closing fence line
FenceFollowers == { << >>, << "more" >>, << "- [x] s", "### b" >> }

FenceCases ==
    [before : FenceContexts, open : {Fence, Fence \o "js"},
     inside : FencedLines, after : FenceFollowers]

\* the document with the fenced block
FencedDoc(c) == LinesText(c.before \o << c.open >> \o c.inside \o << Fence >> \o c.after)

\* the same document with the lines between the fence lines removed
StrippedDoc(c) == LinesText(c.before \o << c.open >> \o << Fence >> \o c.after)

InitFence ==
    /\ NoPanel
    /\ pc = "fenced"
    /\ input \in {Some(c) : c \in FenceCases}
    /\ pst = Undefined
    /\ outBoard = Undefined
    /\ outText = Undefined
    /\ outBoard2 = Undefined
    /\ outText2 = Undefined

\* parseMarkdown of the document with the fenced block
ParseFenced ==
    /\ pc = "fenced"
    /\ outText' = Some(FencedDoc(input[1]))
    /\ \E rnd \in RandomOutcomes :
          outBoard' = Some(parseMarkdown(FencedDoc(input[1]), rnd))
    /\ pc' = "parsedFenced"
    /\ UNCHANGED << input, pst, outBoard2, outText2 >>
    /\ UNCHANGED panelVars

\* parseMarkdown of the document without the fenced lines
ParseStripped ==
    /\ pc = "parsedFenced"
    /\ outText2' = Some(StrippedDoc(input[1]))
    /\ \E rnd \in RandomOutcomes :
          outBoard2' = Some(parseMarkdown(StrippedDoc(input[1]), rnd))
    /\ pc' = "parsedStripped"
    /\ UNCHANGED << input, pst, outBoard, outText >>
    /\ UNCHANGED panelVars

NextFence ==
    \/ ParseFenced
    \/ ParseStripped

SpecFence == InitFence /\ [][NextFence]_vars

\* C11: the lines between an opening and a closing fence line have no effect: the
\* board parsed from a document equals the board parsed from the document with
\* those lines removed (title, counter, columns, tasks and every task field)
C11_FencedLinesHaveNoEffect ==
    pc = "parsedStripped" => SameBoard(outBoard[1], outBoard2[1])

\* the fenced lines of the case hold no next-id comment
NoFencedCounter(c) ==
    \A k \in 1 .. Len(c.inside) : c.inside[k] # "<!-- next-id: 9 -->"

\* the same, for the blocks that hold no next-id comment
FencedLinesWithoutCounterHaveNoEffect ==
    (pc = "parsedStripped" /\ NoFencedCounter(input[1])) =>
        SameBoard(outBoard[1], outBoard2[1])

(***************************************************************************)
(* Round trip of a column header: generateMarkdown, parseMarkdown,         *)
(* generateMarkdown                                                        *)
(***************************************************************************)
ColumnHeaderTitles ==
    { "Done", "To Do", "In Progress", "Archived", "Done [archived]",
      "Done [Archived]", "Done[Archived]", "[Archived] Done" }

\* boards of one column with the title and the archived flag under test
ColumnBoards ==
    {[title |-> bt, nextId |-> 2,
      columns |-> << [id |-> "c1", title |-> ct, archived |-> a, tasks |-> tasks] >>] :
        bt \in {"", "B"}, ct \in ColumnHeaderTitles,
        a \in {Undefined, Some(FALSE), Some(TRUE)},
        tasks \in {<< >>, << NewTask("TSK_1", "T") >>}}

InitColumn ==
    /\ NoPanel
    /\ pc = "column"
    /\ input \in {Some(b) : b \in ColumnBoards}
    /\ pst = Undefined
    /\ outBoard = Undefined
    /\ outText = Undefined
    /\ outBoard2 = Undefined
    /\ outText2 = Undefined

\* generateMarkdown writes the column
WriteColumn ==
    /\ pc = "column"
    /\ outText' = Some(generateMarkdown(input[1], taskHeader))
    /\ pc' = "written"
    /\ UNCHANGED << input, pst, outBoard, outBoard2, outText2 >>
    /\ UNCHANGED panelVars

\* parseMarkdown reads the column back
ReadColumn ==
    /\ pc = "written"
    /\ \E rnd \in RandomOutcomes : outBoard' = Some(parseMarkdown(outText[1], rnd))
    /\ pc' = "read"
    /\ UNCHANGED << input, pst, outText, outBoard2, outText2 >>
    /\ UNCHANGED panelVars

\* generateMarkdown writes the column that was read
RewriteColumn ==
    /\ pc = "read"
    /\ outText2' = Some(generateMarkdown(outBoard[1], taskHeader))
    /\ pc' = "rewritten"
    /\ UNCHANGED << input, pst, outBoard, outText, outBoard2 >>
    /\ UNCHANGED panelVars

NextColumn ==
    \/ WriteColumn
    \/ ReadColumn
    \/ RewriteColumn

SpecColumn == InitColumn /\ [][NextColumn]_vars

\* the column header line of a text of one column
ColumnHeaderLines(text) == SelectSeq(Split(text, "\n"), LAMBDA l : StartsWith(l, "## "))

\* C12: for every column (title, archived flag), parsing the header line that
\* generateMarkdown writes for it returns the same title and the same archived
\* flag; a column that is not archived is never read back as archived
C12_ArchivedRoundTrip ==
    pc \in {"read", "rewritten"} =>
        /\ Len(outBoard[1].columns) = 1
        /\ outBoard[1].columns[1].title = input[1].columns[1].title
        /\ TruthyBool(outBoard[1].columns[1].archived)
               = TruthyBool(input[1].columns[1].archived)

\* the same, for the titles that do not end with the suffix
TitlesWithoutSuffixRoundTrip ==
    (pc \in {"read", "rewritten"} /\ ~EndsWith(input[1].columns[1].title, "[Archived]")) =>
        /\ Len(outBoard[1].columns) = 1
        /\ outBoard[1].columns[1].title = input[1].columns[1].title
        /\ TruthyBool(outBoard[1].columns[1].archived)
               = TruthyBool(input[1].columns[1].archived)
        /\ (pc = "rewritten" => outText2[1] = outText[1])

\* the archived column Done is written as `## Done [Archived]`, read back as
\* {title Done, archived true} and written as `## Done [Archived]` again
ArchivedDoneRoundTrip ==
    (/\ pc = "rewritten"
     /\ input[1].columns[1].title = "Done"
     /\ input[1].columns[1].archived = Some(TRUE)) =>
        /\ ColumnHeaderLines(outText[1]) = << "## Done [Archived]" >>
        /\ outBoard[1].columns[1].title = "Done"
        /\ outBoard[1].columns[1].archived = Some(TRUE)
        /\ ColumnHeaderLines(outText2[1]) = << "## Done [Archived]" >>

(***************************************************************************)
(* One board written with both task header styles                          *)
(***************************************************************************)
\* boards of two columns: tasks with and without an id of the TSK form, an
\* archived column, with and without a board title
StyleBoards ==
    RTBoards \cup
    {[title |-> bt, nextId |-> 7,
      columns |-> << [id |-> "c1", title |-> "Todo", archived |-> Undefined,
                      tasks |-> << t, NewTask("TSK-2", "- dash") >>],
                     [id |-> "c2", title |-> "Done", archived |-> Some(TRUE),
                      tasks |-> rest] >>] :
        bt \in {"", "B"},
        t \in {[NewTask("k3x9a0b1c", "No id") EXCEPT
                   !.steps = Some(<< [text |-> "s", completed |-> FALSE] >>)],
               [NewTask("TSK_1", "### T") EXCEPT !.tags = Some(<< "x" >>)]},
        rest \in {<< >>, << NewTask("TSK_3", "U") >>}}

InitStyle ==
    /\ NoPanel
    /\ pc = "board"
    /\ input \in {Some(b) : b \in StyleBoards}
    /\ pst = Undefined
    /\ outBoard = Undefined
    /\ outText = Undefined
    /\ outBoard2 = Undefined
    /\ outText2 = Undefined

\* generateMarkdown(b, 'title')
SerializeTitleStyle ==
    /\ pc = "board"
    /\ outText' = Some(generateMarkdown(input[1], "title"))
    /\ pc' = "titleStyle"
    /\ UNCHANGED << input, pst, outBoard, outBoard2, outText2 >>
    /\ UNCHANGED panelVars

\* generateMarkdown(b, 'list')
SerializeListStyle ==
    /\ pc = "titleStyle"
    /\ outText2' = Some(generateMarkdown(input[1], "list"))
    /\ pc' = "bothStyles"
    /\ UNCHANGED << input, pst, outBoard, outText, outBoard2 >>
    /\ UNCHANGED panelVars

NextStyle ==
    \/ SerializeTitleStyle
    \/ SerializeListStyle

SpecStyle == InitStyle /\ [][NextStyle]_vars

\* the positions at which two line lists of the same length differ
DifferingLines(a, b) == SelectSeq(Indices(Len(a)), LAMBDA k : a[k] # b[k])

\* C13: generateMarkdown(b, 'title') and generateMarkdown(b, 'list') have the same
\* number of lines and are identical line for line, except for one line per task,
\* in task order: the task's header line, which is `### ` and a text that ends
\* with the task's title in the former and `- ` and the same text in the latter
C13_HeaderStyleChangesOnlyThePrefix ==
    pc = "bothStyles" =>
        LET a == Split(outText[1], "\n")
            b == Split(outText2[1], "\n")
            tasks == AllTasks(input[1].columns)
        IN  /\ Len(a) = Len(b)
            /\ Len(DifferingLines(a, b)) = Len(tasks)
            /\ \A t \in 1 .. Len(tasks) :
                  LET k == DifferingLines(a, b)[t]
                  IN  /\ StartsWith(a[k], "### ")
                      /\ b[k] = "- " \o Substring(a[k], 4)
                      /\ EndsWith(a[k], tasks[t].title)

\* C13 witness: a board of three tasks, one without an id prefix and with a
\* checklist (whose item lines start with `- ` in both texts), was written in
\* both styles
C13_Witness ==
    /\ pc = "bothStyles"
    /\ Len(AllTasks(input[1].columns)) = 3
    /\ IndexOf(outText[1], "### No id\n", 1) # 0
    /\ IndexOf(outText2[1], "- No id\n", 1) # 0
    /\ IndexOf(outText[1], "\n- [ ] s\n", 1) # 0
    /\ IndexOf(outText2[1], "\n- [ ] s\n", 1) # 0
    /\ IndexOf(outText2[1], "- TSK-2 - dash\n", 1) # 0

(***************************************************************************)
(* The panel with its saves in flight: performAction runs the mutation and *)
(* the serialization at once and then awaits applyEdit and save, so the    *)
(* next message can be handled before the edit of the last one is applied  *)
(***************************************************************************)
\* documents the panel stands on when the messages arrive
AsyncDocs ==
    { "<!-- next-id: 3 -->\n# B\n\n## Todo\n\n### TSK_1 a\n\n### TSK_2 b\n\n## Done\n\n",
      "## Todo\n- a\n  - steps:\n      - [ ] s1\n      - [x] s2\n- b\n## Done [Archived]\n" }

\* the panel after loadMarkdownFile has loaded the document and posted the board
InitAsync ==
    /\ document \in AsyncDocs
    /\ board = Some(parseMarkdown(document, << "k3x9a0b1c", "p0q7zz81m", "w5e2r4t6y" >>))
    /\ taskHeader \in {"title", "list"}
    /\ selfSave = "elapsed"
    /\ saved = FALSE
    /\ handedOut = {}
    /\ reused = FALSE
    /\ baseId = board[1].nextId
    /\ created = << >>
    /\ mutations = 0
    /\ pendingSaves = << >>
    /\ documentVersion = 1
    /\ prefixBoards = << board[1] >>
    /\ written = {}
    /\ posted = {board[1]}
    /\ NoRun

\* performAction(action) up to its first await, with newBoard the board after
\* action(): the mutation, the time stamp, and saveToMarkdown up to applyEdit: the
\* text is generated from the board and the edit is made against the document as
\* it is now (the allocator's history is not followed in this specification)
performActionAsync(newBoard) ==
    /\ IsDefined(board)
    /\ mutations < MaxMutations
    /\ board' = Some(newBoard)
    /\ selfSave' = "within"
    /\ pendingSaves' = Append(pendingSaves,
                              [markdown |-> generateMarkdown(newBoard, taskHeader),
                               version |-> documentVersion,
                               awaits |-> "applyEdit"])
    /\ prefixBoards' = Append(prefixBoards, newBoard)
    /\ mutations' = mutations + 1
    /\ UNCHANGED << document, taskHeader, saved, handedOut, reused, baseId, created,
                    documentVersion, written, posted >>
    /\ UNCHANGED runVars

MoveTaskMessage ==
    /\ IsDefined(board)
    /\ \E taskId \in TaskIdsOf(board[1]), fromColumnId \in ColumnIdsOf(board[1]),
          toColumnId \in ColumnIdsOf(board[1]), newIndex \in 0 .. MaxIndex :
          performActionAsync(moveTask(board[1], taskId, fromColumnId, toColumnId, newIndex))

AddTaskMessage ==
    /\ IsDefined(board)
    /\ \E columnId \in ColumnIdsOf(board[1]), taskData \in TaskDatas :
          performActionAsync(addTask(board[1], columnId, taskData))

DeleteTaskMessage ==
    /\ IsDefined(board)
    /\ \E taskId \in TaskIdsOf(board[1]), columnId \in ColumnIdsOf(board[1]) :
          performActionAsync(deleteTask(board[1], taskId, columnId))

EditTaskMessage ==
    /\ IsDefined(board)
    /\ \E taskId \in TaskIdsOf(board[1]), columnId \in ColumnIdsOf(board[1]),
          taskData \in TaskDatas :
          performActionAsync(editTask(board[1], taskId, columnId, taskData))

UpdateTaskStepMessage ==
    /\ IsDefined(board)
    /\ \E taskId \in TaskIdsOf(board[1]), columnId \in ColumnIdsOf(board[1]),
          stepIndex \in 0 .. MaxIndex, completed \in BOOLEAN :
          performActionAsync(updateTaskStep(board[1], taskId, columnId, stepIndex, completed))

UpdateChecklistItemMessage ==
    /\ IsDefined(board)
    /\ \E taskId \in TaskIdsOf(board[1]), columnId \in ColumnIdsOf(board[1]),
          listKey \in {"steps", "ac"},
          stepIndex \in 0 .. MaxIndex, completed \in BOOLEAN :
          performActionAsync(updateChecklistItem(board[1], taskId, columnId, listKey,
                                                 stepIndex, completed))

ReorderTaskStepsMessage ==
    /\ IsDefined(board)
    /\ \E taskId \in TaskIdsOf(board[1]), columnId \in ColumnIdsOf(board[1]),
          newOrder \in StepOrders :
          performActionAsync(reorderTaskSteps(board[1], taskId, columnId, newOrder))

AddColumnMessage ==
    /\ IsDefined(board)
    /\ \E title \in ColumnTitles, rnd \in RandomOutcomes :
          performActionAsync(addColumn(board[1], title, rnd[1]))

MoveColumnMessage ==
    /\ IsDefined(board)
    /\ \E fromIndex \in 0 .. Len(board[1].columns) - 1,
          toIndex \in 0 .. Len(board[1].columns) - 1 :
          performActionAsync(moveColumn(board[1], fromIndex, toIndex))

ToggleColumnArchiveMessage ==
    /\ IsDefined(board)
    /\ \E columnId \in ColumnIdsOf(board[1]), archived \in BOOLEAN :
          performActionAsync(toggleColumnArchive(board[1], columnId, archived))

\* the position of the oldest save that awaits applyEdit, 0 if none
OldestEdit ==
    LET waiting == SelectSeq(Indices(Len(pendingSaves)),
                             LAMBDA k : pendingSaves[k].awaits = "applyEdit")
    IN  IF Len(waiting) = 0 THEN 0 ELSE waiting[1]

\* vscode.workspace.applyEdit resolves for the oldest edit in flight.  The range
\* of the edit, (0, 0) to (lineCount, 0), covers the document the edit was made
\* against.  An edit made against the current version replaces the whole text; an
\* edit made against a version that another edit has replaced since is not applied
\* and applyEdit resolves to false, which saveToMarkdown does not look at.  The
\* call goes on to await document.save().
ApplyEditResolves ==
    /\ OldestEdit # 0
    /\ LET k == OldestEdit
           edit == pendingSaves[k]
       IN  /\ pendingSaves' = [pendingSaves EXCEPT ![k].awaits = "save"]
           /\ IF edit.version = documentVersion
              THEN /\ document' = edit.markdown
                   /\ documentVersion' = documentVersion + 1
                   /\ written' = written \cup {edit.markdown}
                   /\ saved' = TRUE
              ELSE UNCHANGED << document, documentVersion, written, saved >>
    /\ UNCHANGED << board, taskHeader, selfSave, handedOut, reused, baseId, created,
                    mutations, prefixBoards, posted >>
    /\ UNCHANGED runVars

\* document.save() resolves for the oldest save in flight; performAction goes on
\* to _update(), which posts the board as it is now
SaveResolves ==
    /\ Len(pendingSaves) > 0
    /\ pendingSaves[1].awaits = "save"
    /\ pendingSaves' = Tail(pendingSaves)
    /\ posted' = posted \cup {board[1]}
    /\ UNCHANGED << board, document, taskHeader, selfSave, saved, handedOut, reused,
                    baseId, created, mutations, documentVersion, prefixBoards, written >>
    /\ UNCHANGED runVars

NextAsync ==
    \/ MoveTaskMessage
    \/ AddTaskMessage
    \/ DeleteTaskMessage
    \/ EditTaskMessage
    \/ UpdateTaskStepMessage
    \/ UpdateChecklistItemMessage
    \/ ReorderTaskStepsMessage
    \/ AddColumnMessage
    \/ MoveColumnMessage
    \/ ToggleColumnArchiveMessage
    \/ ApplyEditResolves
    \/ SaveResolves

SpecAsync == InitAsync /\ [][NextAsync]_vars

\* the value is one of the boards after the load and a whole prefix of the messages
IsPrefixBoard(b) == \E k \in 1 .. Len(prefixBoards) : b = prefixBoards[k]

\* every text written and every board posted is that of a whole prefix
WrittenAndPostedAreOfPrefixes ==
    /\ \A t \in written :
          \E k \in 1 .. Len(prefixBoards) : t = generateMarkdown(prefixBoards[k], taskHeader)
    /\ \A b \in posted : IsPrefixBoard(b)

\* once no save is in flight the document is the serialization of the board
SettledDocumentIsTheBoard ==
    (mutations > 0 /\ pendingSaves = << >>) =>
        document = generateMarkdown(board[1], taskHeader)

\* C15: for any interleaving of mutation messages and their saves, every text
\* written to the document and every board posted to the webview is that of a
\* board after a whole prefix of the messages, and once all pending saves have
\* completed the document is generateMarkdown of the in-memory board
C15_MutationsAreAtomic == WrittenAndPostedAreOfPrefixes /\ SettledDocumentIsTheBoard

(***************************************************************************)
(* One mutation request applied to a board: the ids and indices of the     *)
(* request are any, not only those the webview sends for the board         *)
(***************************************************************************)
\* the boards the requests are applied to, as parseMarkdown returns them
MutationDocs ==
    { "<!-- next-id: 5 -->\n## A\n### TSK_1 a\n### TSK_2 b\n### TSK_3 c\n## B\n### TSK_4 d\n## C\n",
      "## Todo\n- a\n  - steps:\n      - [ ] s1\n      - [x] s2\n- b\n## Done [Archived]\n",
      "## Todo\n### TSK_1 a\n### b\n",
      "## Todo\n### TSK_1 a\n**AC:**\n- [ ] c\n**Verify:**\n- [x] v\n**Files:** f\n### TSK_1 dup\n" }

MutationBoards ==
    {parseMarkdown(d, << "k3x9a0b1c", "p0q7zz81m", "w5e2r4t6y" >>) : d \in MutationDocs}

\* the indices a request carries: below zero, in range, and beyond the lists
RequestIndices == -2 .. MaxIndex + 2

\* the index lists a reorderTaskSteps request carries
RequestOrders == UNION {[1 .. k -> -1 .. MaxIndex + 1] : k \in 0 .. 3}

\* the requests to a board: a message type with its arguments
Requests(b) ==
    [type : {"moveTask"}, taskId : TaskIdsOf(b), fromColumnId : ColumnIdsOf(b),
     toColumnId : ColumnIdsOf(b), newIndex : RequestIndices]
    \cup [type : {"addTask"}, columnId : ColumnIdsOf(b), taskData : TaskDatas]
    \cup [type : {"deleteTask"}, taskId : TaskIdsOf(b), columnId : ColumnIdsOf(b)]
    \cup [type : {"editTask"}, taskId : TaskIdsOf(b), columnId : ColumnIdsOf(b),
          taskData : TaskDatas]
    \cup [type : {"updateTaskStep"}, taskId : TaskIdsOf(b), columnId : ColumnIdsOf(b),
          stepIndex : RequestIndices, completed : BOOLEAN]
    \cup [type : {"updateChecklistItem"}, taskId : TaskIdsOf(b),
          columnId : ColumnIdsOf(b), listKey : {"steps", "ac", "verify"},
          stepIndex : RequestIndices, completed : BOOLEAN]
    \cup [type : {"reorderTaskSteps"}, taskId : TaskIdsOf(b), columnId : ColumnIdsOf(b),
          newOrder : RequestOrders]
    \cup [type : {"moveColumn"}, fromIndex : RequestIndices, toIndex : RequestIndices]
    \cup [type : {"toggleColumnArchive"}, columnId : ColumnIdsOf(b), archived : BOOLEAN]

InitMutation ==
    /\ NoPanel
    /\ pc = "request"
    /\ \E b \in MutationBoards :
          input \in {Some([board |-> b, message |-> m]) : m \in Requests(b)}
    /\ pst = Undefined
    /\ outBoard = Undefined
    /\ outText = Undefined
    /\ outBoard2 = Undefined
    /\ outText2 = Undefined

\* the action of the message runs on the board: outBoard is the board after it
Applied(newBoard) ==
    /\ pc = "request"
    /\ outBoard' = Some(newBoard)
    /\ pc' = "applied"
    /\ UNCHANGED << input, pst, outText, outBoard2, outText2 >>
    /\ UNCHANGED panelVars

ApplyMoveTask ==
    /\ input[1].message.type = "moveTask"
    /\ LET m == input[1].message
       IN  Applied(moveTask(input[1].board, m.taskId, m.fromColumnId, m.toColumnId,
                            m.newIndex))

ApplyAddTask ==
    /\ input[1].message.type = "addTask"
    /\ LET m == input[1].message
       IN  Applied(addTask(input[1].board, m.columnId, m.taskData))

ApplyDeleteTask ==
    /\ input[1].message.type = "deleteTask"
    /\ LET m == input[1].message
       IN  Applied(deleteTask(input[1].board, m.taskId, m.columnId))

ApplyEditTask ==
    /\ input[1].message.type = "editTask"
    /\ LET m == input[1].message
       IN  Applied(editTask(input[1].board, m.taskId, m.columnId, m.taskData))

ApplyUpdateTaskStep ==
    /\ input[1].message.type = "updateTaskStep"
    /\ LET m == input[1].message
       IN  Applied(updateTaskStep(input[1].board, m.taskId, m.columnId, m.stepIndex,
                                  m.completed))

ApplyUpdateChecklistItem ==
    /\ input[1].message.type = "updateChecklistItem"
    /\ LET m == input[1].message
       IN  Applied(updateChecklistItem(input[1].board, m.taskId, m.columnId, m.listKey,
                                       m.stepIndex, m.completed))

ApplyReorderTaskSteps ==
    /\ input[1].message.type = "reorderTaskSteps"
    /\ LET m == input[1].message
       IN  Applied(reorderTaskSteps(input[1].board, m.taskId, m.columnId, m.newOrder))

ApplyMoveColumn ==
    /\ input[1].message.type = "moveColumn"
    /\ LET m == input[1].message
       IN  Applied(moveColumn(input[1].board, m.fromIndex, m.toIndex))

ApplyToggleColumnArchive ==
    /\ input[1].message.type = "toggleColumnArchive"
    /\ LET m == input[1].message
       IN  Applied(toggleColumnArchive(input[1].board, m.columnId, m.archived))

NextMutation ==
    \/ ApplyMoveTask
    \/ ApplyAddTask
    \/ ApplyDeleteTask
    \/ ApplyEditTask
    \/ ApplyUpdateTaskStep
    \/ ApplyUpdateChecklistItem
    \/ ApplyReorderTaskSteps
    \/ ApplyMoveColumn
    \/ ApplyToggleColumnArchive

SpecMutation == InitMutation /\ [][NextMutation]_vars

\* no column of the board has the id
NoSuchColumn(b, columnId) == \A c \in 1 .. Len(b.columns) : b.columns[c].id # columnId

\* no task of a column with that id has the task id
NoSuchTask(b, columnId, taskId) ==
    \A c \in 1 .. Len(b.columns) :
        b.columns[c].id = columnId =>
            \A t \in 1 .. Len(b.columns[c].tasks) : b.columns[c].tasks[t].id # taskId

\* the first task with the task id in the first column with the column id
TaskOf(b, columnId, taskId) ==
    LET c == CHOOSE c \in 1 .. Len(b.columns) :
                 /\ b.columns[c].id = columnId
                 /\ \A d \in 1 .. c - 1 : b.columns[d].id # columnId
        t == CHOOSE t \in 1 .. Len(b.columns[c].tasks) :
                 /\ b.columns[c].tasks[t].id = taskId
                 /\ \A u \in 1 .. t - 1 : b.columns[c].tasks[u].id # taskId
    IN  b.columns[c].tasks[t]

\* the task is not there, or its list is absent, or the index is outside the list
NoSuchItem(b, columnId, taskId, listKey, stepIndex) ==
    \/ NoSuchTask(b, columnId, taskId)
    \/ ~IsDefined(TaskOf(b, columnId, taskId)[listKey])
    \/ stepIndex < 0
    \/ stepIndex >= Len(TaskOf(b, columnId, taskId)[listKey][1])

\* the request names a column, a task or a checklist item that the board does not hold
NotFound(b, m) ==
    CASE m.type = "addTask" -> NoSuchColumn(b, m.columnId)
      [] m.type \in {"deleteTask", "editTask"} -> NoSuchTask(b, m.columnId, m.taskId)
      [] m.type = "moveTask" ->
            \/ NoSuchColumn(b, m.fromColumnId)
            \/ NoSuchColumn(b, m.toColumnId)
            \/ NoSuchTask(b, m.fromColumnId, m.taskId)
      [] m.type = "toggleColumnArchive" -> NoSuchColumn(b, m.columnId)
      [] m.type = "updateTaskStep" ->
            NoSuchItem(b, m.columnId, m.taskId, "steps", m.stepIndex)
      [] m.type = "updateChecklistItem" ->
            NoSuchItem(b, m.columnId, m.taskId, m.listKey, m.stepIndex)
      [] OTHER -> FALSE

\* C16: addTask, deleteTask, editTask, moveTask, toggleColumnArchive with a column
\* id or task id that is not on the board, and updateTaskStep / updateChecklistItem
\* with an index below 0 or not below the list length or with an absent list, leave
\* the board (columns, their order, every task and its fields, nextId) unchanged
C16_NotFoundIsNoOp ==
    (pc = "applied" /\ NotFound(input[1].board, input[1].message)) =>
        outBoard[1] = input[1].board

\* C16 witness: updateTaskStep with the index 2 on a task of two steps, and the
\* board after it is the board before it
C16_Witness ==
    /\ pc = "applied"
    /\ input[1].message.type = "updateTaskStep"
    /\ ~NoSuchTask(input[1].board, input[1].message.columnId, input[1].message.taskId)
    /\ IsDefined(TaskOf(input[1].board, input[1].message.columnId,
                        input[1].message.taskId).steps)
    /\ Len(TaskOf(input[1].board, input[1].message.columnId,
                  input[1].message.taskId).steps[1]) = 2
    /\ input[1].message.stepIndex = 2
    /\ outBoard[1] = input[1].board

\* the value is a column
IsColumn(c) == c # Undefined

\* b is a of which the element at position k (1-based) is removed
WithoutAt(a, k) == [j \in 1 .. Len(a) - 1 |-> IF j < k THEN a[j] ELSE a[j + 1]]

\* C17: moveColumn(fromIndex, toIndex) keeps the column list a permutation of its
\* previous value for all integer index pairs: for indices in range the moved
\* column ends at position toIndex and the other columns keep their relative
\* order; for an out-of-range index the board is unchanged; in no case is a column
\* lost, duplicated or a non-column value inserted into board.columns
C17_MoveColumnPermutes ==
    (pc = "applied" /\ input[1].message.type = "moveColumn") =>
        LET before == input[1].board.columns
            after == outBoard[1].columns
            from == input[1].message.fromIndex
            to == input[1].message.toIndex
            inRange == /\ from >= 0 /\ from < Len(before)
                       /\ to >= 0 /\ to < Len(before)
        IN  /\ \A k \in 1 .. Len(after) : IsColumn(after[k])
            /\ Len(after) = Len(before)
            /\ \A k \in 1 .. Len(before) : \E j \in 1 .. Len(after) : after[j] = before[k]
            /\ inRange =>
                  /\ after[to + 1] = before[from + 1]
                  /\ WithoutAt(after, to + 1) = WithoutAt(before, from + 1)
            /\ ~inRange => after = before
            /\ outBoard[1].title = input[1].board.title
            /\ outBoard[1].nextId = input[1].board.nextId

\* the same, for the index pairs in range
MoveColumnInRangePermutes ==
    (/\ pc = "applied" /\ input[1].message.type = "moveColumn"
     /\ input[1].message.fromIndex \in 0 .. Len(input[1].board.columns) - 1
     /\ input[1].message.toIndex \in 0 .. Len(input[1].board.columns) - 1) =>
        LET before == input[1].board.columns
            after == outBoard[1].columns
        IN  /\ Len(after) = Len(before)
            /\ after[input[1].message.toIndex + 1] = before[input[1].message.fromIndex + 1]
            /\ WithoutAt(after, input[1].message.toIndex + 1)
                   = WithoutAt(before, input[1].message.fromIndex + 1)

\* the index list names every index of a list of n elements exactly once
IsPermutationOf(newOrder, n) ==
    /\ Len(newOrder) = n
    /\ \A i \in 0 .. n - 1 : \E k \in 1 .. n : newOrder[k] = i

\* a reorderTaskSteps request for a task that is on the board and has steps
ReorderApplied ==
    /\ pc = "applied"
    /\ input[1].message.type = "reorderTaskSteps"
    /\ ~NoSuchTask(input[1].board, input[1].message.columnId, input[1].message.taskId)
    /\ IsDefined(TaskOf(input[1].board, input[1].message.columnId,
                        input[1].message.taskId).steps)

\* C18: reorderTaskSteps never adds, drops or duplicates a checklist item: for a
\* permutation newOrder, result[i] = previous[newOrder[i]]; for a list that
\* contains an out-of-range, missing or repeated index the steps are left unchanged
C18_ReorderKeepsItems ==
    ReorderApplied =>
        LET m == input[1].message
            previous == TaskOf(input[1].board, m.columnId, m.taskId).steps[1]
            result == TaskOf(outBoard[1], m.columnId, m.taskId).steps[1]
        IN  IF IsPermutationOf(m.newOrder, Len(previous))
            THEN result = [i \in 1 .. Len(previous) |-> previous[m.newOrder[i] + 1]]
            ELSE result = previous

\* the same, for the index lists that are permutations
ReorderByPermutation ==
    (ReorderApplied
     /\ IsPermutationOf(input[1].message.newOrder,
                        Len(TaskOf(input[1].board, input[1].message.columnId,
                                   input[1].message.taskId).steps[1]))) =>
        LET m == input[1].message
            previous == TaskOf(input[1].board, m.columnId, m.taskId).steps[1]
            result == TaskOf(outBoard[1], m.columnId, m.taskId).steps[1]
        IN  result = [i \in 1 .. Len(previous) |-> previous[m.newOrder[i] + 1]]

\* the number of tasks of the board that have the id
Occurrences(b, taskId) ==
    Len(SelectSeq(AllTasks(b.columns), LAMBDA task : task.id = taskId))

\* the position (1-based) of the first column with the id
ColumnAt(b, columnId) ==
    CHOOSE c \in 1 .. Len(b.columns) :
        /\ b.columns[c].id = columnId
        /\ \A d \in 1 .. c - 1 : b.columns[d].id # columnId

\* the position (1-based) of the first task with the id in a task list
TaskAt(tasks, taskId) ==
    CHOOSE t \in 1 .. Len(tasks) :
        /\ tasks[t].id = taskId
        /\ \A u \in 1 .. t - 1 : tasks[u].id # taskId

\* a moveTask request for existing columns, a task of the from column and an
\* index that is not negative
MoveApplied ==
    /\ pc = "applied"
    /\ input[1].message.type = "moveTask"
    /\ ~NoSuchColumn(input[1].board, input[1].message.toColumnId)
    /\ ~NoSuchTask(input[1].board, input[1].message.fromColumnId, input[1].message.taskId)
    /\ input[1].message.newIndex >= 0

\* C19: moveTask conserves tasks: for existing columns from and to, a task present
\* in from, and newIndex >= 0, after moveTask the task is in column to at index
\* min(newIndex, number of tasks in to after the removal) and occurs on the board as
\* often as before (once, on a board of distinct ids); every other task keeps its
\* column and relative order; the number of tasks, the columns' other fields, the
\* title and nextId are unchanged (this includes moves within one column)
C19_MoveTaskConserves ==
    MoveApplied =>
        LET m == input[1].message
            b == input[1].board
            r == outBoard[1]
            from == ColumnAt(b, m.fromColumnId)
            to == ColumnAt(b, m.toColumnId)
            t == TaskAt(b.columns[from].tasks, m.taskId)
            task == b.columns[from].tasks[t]
            left == WithoutAt(b.columns[from].tasks, t)
            target == IF to = from THEN left ELSE b.columns[to].tasks
            k == IF m.newIndex < Len(target) THEN m.newIndex ELSE Len(target)
        IN  /\ r.columns[to].tasks[k + 1] = task
            /\ WithoutAt(r.columns[to].tasks, k + 1) = target
            /\ to # from => r.columns[from].tasks = left
            /\ \A c \in 1 .. Len(b.columns) :
                  /\ c \notin {from, to} => r.columns[c] = b.columns[c]
                  /\ r.columns[c].id = b.columns[c].id
                  /\ r.columns[c].title = b.columns[c].title
                  /\ r.columns[c].archived = b.columns[c].archived
            /\ Len(r.columns) = Len(b.columns)
            /\ Occurrences(r, m.taskId) = Occurrences(b, m.taskId)
            /\ Len(AllTasks(r.columns)) = Len(AllTasks(b.columns))
            /\ r.nextId = b.nextId
            /\ r.title = b.title

\* C19 witness: the first of three tasks of a column is moved within the column to
\* an index beyond its end, and lands at the end; it occurs once
C19_Witness ==
    /\ MoveApplied
    /\ input[1].message.fromColumnId = input[1].message.toColumnId
    /\ input[1].message.taskId = "TSK_1"
    /\ input[1].message.newIndex = 3
    /\ Len(input[1].board.columns) = 3
    /\ BoardTaskIds(outBoard[1]) = << "TSK_2", "TSK_3", "TSK_1", "TSK_4" >>
    /\ Occurrences(outBoard[1], "TSK_1") = 1

(***************************************************************************)
(* A task body with a property line of an unknown key or an unknown        *)
(* enumeration value, and the same body without that line                  *)
(***************************************************************************)
\* the lines of the task body before the line under test
PropertyContexts ==
    { << >>, << "  - tags: [x]" >>, << "> x | low" >>, << "  - desc: d" >> }

\* property lines with an unknown key, and with a value outside the enumeration
UnknownKeyLines == { "  - foo: bar", "  - status: open" }

UnknownValueLines ==
    { "  - priority: urgent", "  - priority: HIGH", "  - workload: Huge",
      "  - workload: easy" }

\* recognized lines after the line under test: a property, a section with an
\* item, a legacy list with an item
PropertyFollowers ==
    { << "  - due: 2024" >>,
      << "  - workload: Hard", "  - priority: high" >>,
      << "**Steps:**", "- [x] s1" >>,
      << "  - steps:", "      - [ ] s1" >>,
      << "**Files:** a.ts" >> }

PropertyCases ==
    [before : PropertyContexts, line : UnknownKeyLines \cup UnknownValueLines,
     after : PropertyFollowers]

\* the document with the line under test in the body of its only task
WithLineDoc(c) ==
    LinesText(<< "## Todo", "- a" >> \o c.before \o << c.line >> \o c.after)

\* the same document without the line
WithoutLineDoc(c) == LinesText(<< "## Todo", "- a" >> \o c.before \o c.after)

InitProperty ==
    /\ NoPanel
    /\ pc = "case"
    /\ input \in {Some(c) : c \in PropertyCases}
    /\ pst = Undefined
    /\ outBoard = Undefined
    /\ outText = Undefined
    /\ outBoard2 = Undefined
    /\ outText2 = Undefined

\* parseMarkdown of the document with the line
ParseWithLine ==
    /\ pc = "case"
    /\ outText' = Some(WithLineDoc(input[1]))
    /\ \E rnd \in RandomOutcomes :
          outBoard' = Some(parseMarkdown(WithLineDoc(input[1]), rnd))
    /\ pc' = "parsedWith"
    /\ UNCHANGED << input, pst, outBoard2, outText2 >>
    /\ UNCHANGED panelVars

\* parseMarkdown of the document without the line
ParseWithoutLine ==
    /\ pc = "parsedWith"
    /\ outText2' = Some(WithoutLineDoc(input[1]))
    /\ \E rnd \in RandomOutcomes :
          outBoard2' = Some(parseMarkdown(WithoutLineDoc(input[1]), rnd))
    /\ pc' = "parsedWithout"
    /\ UNCHANGED << input, pst, outBoard, outText >>
    /\ UNCHANGED panelVars

NextProperty ==
    \/ ParseWithLine
    \/ ParseWithoutLine

SpecProperty == InitProperty /\ [][NextProperty]_vars

\* the line set no field and did not close the task: the board has its one task,
\* with the fields the other lines give it
LineIsConsumed ==
    /\ Len(AllTasks(outBoard[1].columns)) = 1
    /\ SameBoard(outBoard[1], outBoard2[1])

\* C20: inside a task body a legacy property line with an unrecognized key, a
\* priority value outside {low, medium, high} or a workload value outside {Easy,
\* Normal, Hard, Extreme} sets no field and does not close the task: the recognized
\* property, section and checklist lines that follow it apply to the same task
C20_UnknownPropertyIsConsumed ==
    pc = "parsedWithout" => LineIsConsumed

\* the same, for the lines with a known key and an unknown value
UnknownValueIsConsumed ==
    (pc = "parsedWithout" /\ input[1].line \in UnknownValueLines) => LineIsConsumed


(***************************************************************************)
(* loadMarkdownFile with its try / catch: the call of parseMarkdown either *)
(* returns a board or raises, and the document can change under the panel  *)
(***************************************************************************)
\* the board the catch clause of loadMarkdownFile assigns
ErrorBoard == [title |-> "Error Loading Board", columns |-> << >>, nextId |-> 1]

MutLoadKeepsBoardOnError(previous, text, rnd, raises) ==
    IF raises THEN previous ELSE Some(parseMarkdown(text, rnd))

\* this._board after the try / catch of loadMarkdownFile: the board parseMarkdown
\* returned, or the placeholder when the call raised; previous is this._board
\* before the call
BoardAfterLoad(previous, text, rnd, raises) ==
    IF raises THEN Some(ErrorBoard) ELSE Some(parseMarkdown(text, rnd))

\* the panel after loadMarkdownFile has loaded the document and posted the board
InitLoad ==
    /\ document \in AsyncDocs
    /\ board = Some(parseMarkdown(document, << "k3x9a0b1c", "p0q7zz81m", "w5e2r4t6y" >>))
    /\ taskHeader \in {"title", "list"}
    /\ selfSave = "elapsed"
    /\ saved = FALSE
    /\ handedOut = {}
    /\ reused = FALSE
    /\ baseId = board[1].nextId
    /\ created = << >>
    /\ mutations = 0
    /\ pendingSaves = << >>
    /\ documentVersion = 1
    /\ prefixBoards = << >>
    /\ written = {}
    /\ posted = {board[1]}
    /\ pc = "returned"
    /\ input = Undefined
    /\ pst = Undefined
    /\ outBoard = Undefined
    /\ outText = Undefined
    /\ outBoard2 = Undefined
    /\ outText2 = Undefined

\* the number of changes made to the document outside the panel, and the number
\* of mutation messages handled
MaxChanges == 1

\* the text of the document is changed outside the panel
DocumentChanges ==
    /\ documentVersion - mutations <= MaxChanges
    /\ \E text \in AsyncDocs : text # document /\ document' = text
    /\ documentVersion' = documentVersion + 1
    /\ UNCHANGED << board, taskHeader, selfSave, saved, handedOut, reused, baseId,
                    created, mutations, pendingSaves, prefixBoards, written, posted >>
    /\ UNCHANGED runVars

\* loadMarkdownFile(document) past the self-save guard: the try / catch around
\* parseMarkdown, then _update() posts the board; pc keeps how the call went
LoadOutcome(raises) ==
    /\ selfSave = "elapsed"
    /\ \E rnd \in RandomOutcomes :
          board' = BoardAfterLoad(board, document, rnd, raises)
    /\ posted' = posted \cup {board'[1]}
    /\ pc' = IF raises THEN "raised" ELSE "returned"
    /\ UNCHANGED << document, taskHeader, selfSave, saved, handedOut, reused, baseId,
                    created, mutations, pendingSaves, documentVersion, prefixBoards,
                    written >>
    /\ UNCHANGED << input, pst, outBoard, outText, outBoard2, outText2 >>

LoadReturns == LoadOutcome(FALSE)

LoadRaises == LoadOutcome(TRUE)

\* loadMarkdownFile(document) within 1.5 s of a self-save: the early return
LoadSkipped ==
    /\ selfSave = "within"
    /\ UNCHANGED vars

\* performAction(action) with the save completed before the next message: the
\* mutation, the time stamp, the text written to the document, the board posted
performActionLoad(newBoard) ==
    /\ IsDefined(board)
    /\ mutations < MaxChanges
    /\ board' = Some(newBoard)
    /\ selfSave' = "within"
    /\ document' = generateMarkdown(newBoard, taskHeader)
    /\ documentVersion' = documentVersion + 1
    /\ written' = written \cup {document'}
    /\ posted' = posted \cup {newBoard}
    /\ saved' = TRUE
    /\ mutations' = mutations + 1
    /\ pc' = "mutated"
    /\ UNCHANGED << taskHeader, handedOut, reused, baseId, created, pendingSaves,
                    prefixBoards >>
    /\ UNCHANGED << input, pst, outBoard, outText, outBoard2, outText2 >>

AddColumnAfterLoad ==
    /\ IsDefined(board)
    /\ \E title \in ColumnTitles, rnd \in RandomOutcomes :
          performActionLoad(addColumn(board[1], title, rnd[1]))

AddTaskAfterLoad ==
    /\ IsDefined(board)
    /\ \E columnId \in ColumnIdsOf(board[1]), taskData \in TaskDatas :
          performActionLoad(addTask(board[1], columnId, taskData))

NextLoad ==
    \/ DocumentChanges
    \/ LoadReturns
    \/ LoadRaises
    \/ LoadSkipped
    \/ TimeElapses
    \/ AddColumnAfterLoad
    \/ AddTaskAfterLoad

SpecLoad == InitLoad /\ [][NextLoad]_vars

\* C21: when parseMarkdown raises during loadMarkdownFile, the call completes and
\* the panel's board is the placeholder {title 'Error Loading Board', columns [],
\* nextId 1}, nothing of the previous board is kept, and the placeholder has been
\* posted to the webview
C21_ParseFailureIsContained ==
    pc = "raised" => /\ board = Some(ErrorBoard)
                     /\ ErrorBoard \in posted

\* the call raised on a panel whose board held columns and tasks
C21_Witness ==
    /\ pc = "raised"
    /\ mutations > 0
    /\ \E b \in posted : Len(b.columns) > 1 /\ Len(AllTasks(b.columns)) > 1


(***************************************************************************)
(* Round trip of a board, field by field                                   *)
(***************************************************************************)
\* the tasks of the board written and of the board read back, in document order
WrittenTasks == AllTasks(input[1].columns)

ReadTasks == AllTasks(outBoard[1].columns)

\* the board read back holds as many tasks as the board written
SameTaskCount == Len(ReadTasks) = Len(WrittenTasks)

\* the task at position t is read back with the tags and the priority it had
MetaSurvives(t) ==
    /\ OrEmptyList(ReadTasks[t].tags) = OrEmptyList(WrittenTasks[t].tags)
    /\ OrEmptyString(ReadTasks[t].priority) = OrEmptyString(WrittenTasks[t].priority)

\* C22: every task is read back from the serialization of its board with the same
\* tags in the same order and the same priority, in all four cases: tags only,
\* priority only, both, neither
C22_TagsAndPrioritySurvive ==
    pc \in {"parsed", "reserialized"} =>
        /\ SameTaskCount
        /\ \A t \in 1 .. Len(WrittenTasks) : MetaSurvives(t)

\* the three other cases: a task with tags, or with neither tags nor priority, is
\* read back with its tags and its priority
TaggedOrBareMetaSurvives ==
    pc \in {"parsed", "reserialized"} =>
        /\ SameTaskCount
        /\ \A t \in 1 .. Len(WrittenTasks) :
              (OrEmptyList(WrittenTasks[t].tags) # << >>
               \/ ~TruthyStr(WrittenTasks[t].priority)) => MetaSurvives(t)

\* a task with a priority and no tags is read back with the priority as its only
\* tag and with no priority
PriorityAloneIsReadAsTag ==
    pc \in {"parsed", "reserialized"} =>
        /\ SameTaskCount
        /\ \A t \in 1 .. Len(WrittenTasks) :
              (OrEmptyList(WrittenTasks[t].tags) = << >>
               /\ TruthyStr(WrittenTasks[t].priority)) =>
                  /\ OrEmptyList(ReadTasks[t].tags) = << WrittenTasks[t].priority[1] >>
                  /\ ~IsDefined(ReadTasks[t].priority)


\* the task at position t has a metadata line: a tag, or a priority
HasMeta(t) ==
    OrEmptyList(WrittenTasks[t].tags) # << >> \/ TruthyStr(WrittenTasks[t].priority)

\* the task at position t is read back with its description, and with the
\* checklist and the files written after the description
DescriptionSurvives(t) ==
    /\ OrEmptyString(ReadTasks[t].description) = Trim(WrittenTasks[t].description[1])
    /\ OrEmptyList(ReadTasks[t].steps) = OrEmptyList(WrittenTasks[t].steps)
    /\ OrEmptyString(ReadTasks[t].files) = OrEmptyString(WrittenTasks[t].files)

\* C23: every task whose description is not empty after trim is read back from the
\* serialization of its board with the same description, line breaks preserved,
\* whether or not it has tags or a priority, and with the checklists and files
\* that follow the description still attached to it
C23_DescriptionsSurvive ==
    pc \in {"parsed", "reserialized"} =>
        /\ SameTaskCount
        /\ \A t \in 1 .. Len(WrittenTasks) :
              TruthyStr(WrittenTasks[t].description) => DescriptionSurvives(t)

\* the description has no blank line in it
NoBlankLine(description) == IndexOf(description, "\n\n", 1) = 0

\* the task at position t has a `**Due:**` or a `**Workload:**` line
HasDueOrWorkload(t) ==
    TruthyStr(WrittenTasks[t].dueDate) \/ TruthyStr(WrittenTasks[t].workload)

\* with a metadata line before it and no `**Due:**` / `**Workload:**` line after
\* it, a description without blank lines survives
DescriptionAfterMetaSurvives ==
    pc \in {"parsed", "reserialized"} =>
        /\ SameTaskCount
        /\ \A t \in 1 .. Len(WrittenTasks) :
              (TruthyStr(WrittenTasks[t].description) /\ HasMeta(t)
               /\ ~HasDueOrWorkload(t)
               /\ NoBlankLine(WrittenTasks[t].description[1])) => DescriptionSurvives(t)

\* without a metadata line the description is lost, and so are the checklist and
\* the files written after it
DescriptionWithoutMetaIsLost ==
    pc \in {"parsed", "reserialized"} =>
        /\ SameTaskCount
        /\ \A t \in 1 .. Len(WrittenTasks) :
              (TruthyStr(WrittenTasks[t].description) /\ ~HasMeta(t)) =>
                  /\ OrEmptyString(ReadTasks[t].description) = ""
                  /\ OrEmptyList(ReadTasks[t].steps) = << >>
                  /\ OrEmptyString(ReadTasks[t].files) = ""

\* with a metadata line, the blank lines of a description are dropped
BlankLinesOfDescriptionAreDropped ==
    pc \in {"parsed", "reserialized"} =>
        \A t \in 1 .. Len(WrittenTasks) :
            (HasMeta(t) /\ ~HasDueOrWorkload(t)
             /\ OrEmptyString(WrittenTasks[t].description) = "a\n\nb") =>
                OrEmptyString(ReadTasks[t].description) = "a\nb"


\* the task at position t is read back with its due date and workload, and with
\* the fields written around the `**Due:**` / `**Workload:**` lines
DueAndWorkloadSurvive(t) ==
    /\ OrEmptyString(ReadTasks[t].dueDate) = OrEmptyString(WrittenTasks[t].dueDate)
    /\ OrEmptyString(ReadTasks[t].workload) = OrEmptyString(WrittenTasks[t].workload)
    /\ OrEmptyString(ReadTasks[t].description)
           = Trim(OrEmptyString(WrittenTasks[t].description))
    /\ OrEmptyList(ReadTasks[t].steps) = OrEmptyList(WrittenTasks[t].steps)
    /\ OrEmptyList(ReadTasks[t].ac) = OrEmptyList(WrittenTasks[t].ac)
    /\ OrEmptyList(ReadTasks[t].verify) = OrEmptyList(WrittenTasks[t].verify)
    /\ OrEmptyString(ReadTasks[t].files) = OrEmptyString(WrittenTasks[t].files)

\* C24: every task with a due date or a workload is read back from the
\* serialization of its board with the same due date and workload, and reading
\* the `**Due:**` / `**Workload:**` lines leaves the task open and its description,
\* steps, ac, verify and files as written
C24_DueAndWorkloadSurvive ==
    pc \in {"parsed", "reserialized"} =>
        /\ SameTaskCount
        /\ \A t \in 1 .. Len(WrittenTasks) :
              HasDueOrWorkload(t) => DueAndWorkloadSurvive(t)

\* the lines a task's due date and workload are written as
DueAndWorkloadLines(task) ==
    (IF TruthyStr(task.dueDate) THEN "\n**Due:** " \o task.dueDate[1] ELSE "")
    \o (IF TruthyStr(task.workload) THEN "\n**Workload:** " \o task.workload[1] ELSE "")

\* no due date and no workload is ever read back: after a metadata line the
\* `**Due:**` / `**Workload:**` lines are read as lines of the description, else
\* the first of them closes the task, and the checklist and the files written
\* after it are lost
DueAndWorkloadAreNeverReadBack ==
    pc \in {"parsed", "reserialized"} =>
        /\ SameTaskCount
        /\ \A t \in 1 .. Len(WrittenTasks) :
              HasDueOrWorkload(t) =>
                  /\ ~IsDefined(ReadTasks[t].dueDate)
                  /\ ~IsDefined(ReadTasks[t].workload)
                  /\ HasMeta(t) =>
                        EndsWith(OrEmptyString(ReadTasks[t].description),
                                 Substring(DueAndWorkloadLines(WrittenTasks[t]), 1))
                  /\ ~HasMeta(t) =>
                        /\ OrEmptyList(ReadTasks[t].steps) = << >>
                        /\ OrEmptyString(ReadTasks[t].files) = ""


(***************************************************************************)
(* Round trip of the checklists of a task                                  *)
(***************************************************************************)
\* the values of a checklist: absent, or items with a text, a text of two words,
\* or the empty text
ChecklistValues ==
    { Undefined,
      Some(<< [text |-> "s", completed |-> TRUE] >>),
      Some(<< [text |-> "two words", completed |-> FALSE],
              [text |-> "s", completed |-> TRUE] >>),
      Some(<< [text |-> "", completed |-> FALSE] >>),
      Some(<< [text |-> "s", completed |-> FALSE],
              [text |-> "", completed |-> TRUE] >>) }

\* boards of one column and one task with its three checklists, with or without
\* a metadata line before them
ChecklistBoards ==
    {[title |-> "B", nextId |-> 2,
      columns |-> << [id |-> "c1", title |-> "Todo", archived |-> Undefined,
                      tasks |-> << [NewTask("TSK_1", "T") EXCEPT
                                       !.tags = tg, !.steps = s, !.ac = a,
                                       !.verify = v] >>] >>] :
        tg \in {Undefined, Some(<< "x" >>)},
        s \in ChecklistValues, a \in ChecklistValues, v \in ChecklistValues}

InitChecklist ==
    /\ NoPanel
    /\ pc = "board"
    /\ input \in {Some(b) : b \in ChecklistBoards}
    /\ pst = Undefined
    /\ outBoard = Undefined
    /\ outText = Undefined
    /\ outBoard2 = Undefined
    /\ outText2 = Undefined

SpecChecklist == InitChecklist /\ [][NextRT]_vars

\* the list written has an item, and the list read back is the list written
ListSurvives(before, after) ==
    OrEmptyList(before) # << >> => OrEmptyList(after) = before[1]

\* the task at position t is read back with the items of its three checklists
ChecklistsSurvive(t) ==
    /\ ListSurvives(WrittenTasks[t].steps, ReadTasks[t].steps)
    /\ ListSurvives(WrittenTasks[t].ac, ReadTasks[t].ac)
    /\ ListSurvives(WrittenTasks[t].verify, ReadTasks[t].verify)

\* C25: each of steps, ac and verify of a task that has at least one item is read
\* back from the serialization of the board under the same key as the same
\* sequence of items: same length, order, text and completed flag, for every item
\* text including the empty text
C25_ChecklistsSurvive ==
    pc \in {"parsed", "reserialized"} =>
        /\ Len(ReadTasks) >= Len(WrittenTasks)
        /\ \A t \in 1 .. Len(WrittenTasks) : ChecklistsSurvive(t)

\* no item of the list has the empty text
NoEmptyText(list) ==
    \A k \in 1 .. Len(OrEmptyList(list)) : list[1][k].text # ""

\* the checklists of a task none of whose items has the empty text are read back
\* as written, and the board read back holds the task alone
ChecklistsWithTextSurvive ==
    pc \in {"parsed", "reserialized"} =>
        \A t \in 1 .. Len(WrittenTasks) :
            (/\ NoEmptyText(WrittenTasks[t].steps)
             /\ NoEmptyText(WrittenTasks[t].ac)
             /\ NoEmptyText(WrittenTasks[t].verify)) =>
                /\ SameTaskCount
                /\ ChecklistsSurvive(t)

\* an item with the empty text is read back as the header of a task: the board
\* read back holds a task titled `[ ]` or `[x]` for it
EmptyTextItemIsReadAsTask ==
    pc \in {"parsed", "reserialized"} =>
        \A t \in 1 .. Len(WrittenTasks) :
            ~(/\ NoEmptyText(WrittenTasks[t].steps)
              /\ NoEmptyText(WrittenTasks[t].ac)
              /\ NoEmptyText(WrittenTasks[t].verify)) =>
                /\ Len(ReadTasks) > Len(WrittenTasks)
                /\ ReadTasks[2].title \in {"[ ]", "[x]"}


(***************************************************************************)
(* A document, and the same document with a blank line inserted            *)
(***************************************************************************)
\* the number of lines of the document after its column header
MaxPadded == 3

\* lines of every rule of the loop, none of them blank
PaddedVocabulary ==
    { "### TSK_1 b", "> x | high", "text", "**Steps:**", "- [x] s1",
      "  - desc: hello", "    more" }

\* the blank lines: empty, and white space only
BlankLines == { "", "     " }

\* a document, the number of its lines the blank line is inserted after, and the
\* line inserted
PaddedCases ==
    UNION {[lines : [1 .. k -> PaddedVocabulary], after : 0 .. k + 1, inserted : BlankLines] :
              k \in 1 .. MaxPadded}

\* the lines of the document without the blank line
PlainLines(c) == << "## Todo" >> \o c.lines

\* the lines of the document with the blank line
PaddedLines(c) ==
    SubSeq(PlainLines(c), 1, c.after) \o << c.inserted >>
    \o SubSeq(PlainLines(c), c.after + 1, Len(PlainLines(c)))

InitBlank ==
    /\ NoPanel
    /\ pc = "plain"
    /\ input \in {Some(c) : c \in PaddedCases}
    /\ pst = Undefined
    /\ outBoard = Undefined
    /\ outText = Undefined
    /\ outBoard2 = Undefined
    /\ outText2 = Undefined

\* the loop, run until it stands on lines[k] for the first time
RECURSIVE ParseUntil(_, _)
ParseUntil(st, k) ==
    IF st.i >= k \/ st.i > Len(st.lines) THEN st ELSE ParseUntil(ParseLine(st), k)

\* parseMarkdown of the document without the blank line
ParsePlain ==
    /\ pc = "plain"
    /\ outText' = Some(LinesText(PlainLines(input[1])))
    /\ \E rnd \in RandomOutcomes : outBoard' = Some(parseMarkdown(outText'[1], rnd))
    /\ pc' = "parsedPlain"
    /\ UNCHANGED << input, pst, outBoard2, outText2 >>
    /\ UNCHANGED panelVars

\* parseMarkdown of the document with the blank line; pst keeps the state in which
\* the loop came to the blank line
ParsePadded ==
    /\ pc = "parsedPlain"
    /\ outText2' = Some(LinesText(PaddedLines(input[1])))
    /\ \E rnd \in RandomOutcomes :
          /\ pst' = Some(ParseUntil(ParserStart(outText2'[1], rnd), input[1].after + 1))
          /\ outBoard2' = Some(ParseResult(ParseLoop(pst'[1])))
    /\ pc' = "parsedPadded"
    /\ UNCHANGED << input, outBoard, outText >>
    /\ UNCHANGED panelVars

NextBlank ==
    \/ ParsePlain
    \/ ParsePadded

SpecBlank == InitBlank /\ [][NextBlank]_vars

\* the step of the loop on the blank line changes nothing but the line index: the
\* task and the column stay open, and the collection of a checklist or of the
\* description goes on
BlankStepKeepsState ==
    /\ pst[1].lines[pst[1].i] = input[1].inserted
    /\ ParseLine(pst[1]) = [pst[1] EXCEPT !.i = @ + 1]

ClosedTasks(st) ==
    AllTasks(st.columns)
    \o (IF IsDefined(st.currentColumn) THEN st.currentColumn[1].tasks ELSE << >>)

IsPrefix(a, b) == Len(a) <= Len(b) /\ SubSeq(b, 1, Len(a)) = a

\* the step that does not consume its line: the line is not blank, the open task
\* is pushed once to its column, which stays the open column, no task is open
\* after the step, and the loop stands on the same line
C27_BoundaryStep ==
    (pc = "parsing" /\ pc' = "parsing" /\ pst'[1].i = pst[1].i) =>
        /\ Trim(pst[1].lines[pst[1].i]) # ""
        /\ IsDefined(pst[1].currentTask)
        /\ IsDefined(pst[1].currentColumn)
        /\ ~IsDefined(pst'[1].currentTask)
        /\ ~pst'[1].inTaskBody
        /\ pst'[1].currentColumn =
               Some([pst[1].currentColumn[1] EXCEPT
                        !.tasks = Append(@, FinalizedTask(pst[1].currentTask[1]))])
        /\ pst'[1].columns = pst[1].columns
        /\ pst'[1].lines = pst[1].lines

\* no step of the loop changes a task that was pushed before it
C27_ClosedTasksStay ==
    (pc = "parsing" /\ pc' = "parsing") =>
        /\ IsPrefix(ClosedTasks(pst[1]), ClosedTasks(pst'[1]))
        /\ Len(ClosedTasks(pst'[1])) <= Len(ClosedTasks(pst[1])) + 1

\* the board returned holds the tasks pushed, each once, changed at most in the id
\* the final pass gives it
C27_ClosedTasksAreReturned ==
    (pc = "parsing" /\ pc' = "loaded") =>
        LET closed == ClosedTasks(pst[1])
            returned == AllTasks(outBoard'[1].columns)
        IN  /\ Len(returned)
                   = Len(closed) + (IF IsDefined(pst[1].currentTask) THEN 1 ELSE 0)
            /\ \A k \in 1 .. Len(closed) :
                  [returned[k] EXCEPT !.id = closed[k].id] = closed[k]

\* C27: a line inside a task body that is not blank and matches no body rule
\* finalizes the current task: the task is appended to its column exactly once, no
\* later line changes any of its fields, the same line is presented again with no
\* task open, and the owning column stays open
C27_BoundaryFinalizesTheTask ==
    [][C27_BoundaryStep /\ C27_ClosedTasksStay /\ C27_ClosedTasksAreReturned]_vars

\* C27 witness: the line `text` closed the first task, and the task header after it
\* is attached to the same column
C27_Witness ==
    /\ pc = "loaded"
    /\ pst[1].lines = << "## Todo", "### TSK-2 a", "text", "### TSK_1 b", "" >>
    /\ Len(outBoard[1].columns) = 1
    /\ Len(outBoard[1].columns[1].tasks) = 2


(***************************************************************************)
(* The headers of a document and the board parsed from it                  *)
(***************************************************************************)
\* the number of lines of a document
MaxOutline == 4

OutlineVocabulary ==
    { "# T", "# U", "## A", "## B [Archived]", "### TSK_1 a", "- b", "text",
      "> x | low", "<!-- c -->", Fence }

OutlineDocs ==
    {LinesText(lines) : lines \in UNION {[1 .. k -> OutlineVocabulary] : k \in 1 .. MaxOutline}}

InitOutline ==
    /\ NoPanel
    /\ pc = "text"
    /\ input \in {Some(t) : t \in OutlineDocs}
    /\ pst = Undefined
    /\ outBoard = Undefined
    /\ outText = Undefined
    /\ outBoard2 = Undefined
    /\ outText2 = Undefined

NextOutline ==
    \/ ParseStart
    \/ ParseStep
    \/ ParseReturn

SpecOutline == InitOutline /\ [][NextOutline]_vars

\* the line is a comment line
IsCommentLine(line) == StartsWith(Trim(line), "<!--") /\ EndsWith(Trim(line), "-->")

\* the line is a fence line
IsFenceLine(line) == ~IsCommentLine(line) /\ StartsWith(Trim(line), Fence)

\* the line is a `## ` line
IsColumnHeader(line) == StartsWith(Trim(line), "## ")

\* the line is a task-header line
IsTaskHeader(line) == ~IsColumnHeader(line) /\ isTaskTitle(line, Trim(line))

\* the header sequence of the first k lines: one entry per `## ` line outside code
\* fences and comment lines, each with the task-header lines up to the next entry;
\* a task-header line before the first `## ` line belongs to no entry
RECURSIVE Headers(_, _)
Headers(lines, k) ==
    IF k = 0 THEN [inFence |-> FALSE, columns |-> << >>]
    ELSE LET h == Headers(lines, k - 1)
             line == lines[k]
             n == Len(h.columns)
         IN  IF IsCommentLine(line) THEN h
             ELSE IF IsFenceLine(line) THEN [h EXCEPT !.inFence = ~@]
             ELSE IF h.inFence THEN h
             ELSE IF IsColumnHeader(line)
                  THEN [h EXCEPT !.columns = Append(@, [header |-> line, tasks |-> << >>])]
             ELSE IF IsTaskHeader(line) /\ n > 0
                  THEN [h EXCEPT !.columns[n].tasks = Append(@, line)]
             ELSE h

\* the task is the task of the task-header line
IsTaskOfHeader(task, line) ==
    LET taskTitle == HeaderTitle(Trim(line))
    IN  IF IsDefined(TskMatch(taskTitle))
        THEN task.id = TskMatch(taskTitle)[1][1] /\ task.title = TskMatch(taskTitle)[1][2]
        ELSE task.title = taskTitle

\* the column is the column of the `## ` line
IsColumnOfHeader(column, line) ==
    LET columnTitle == Trim(Substring(Trim(line), 3))
    IN  IF EndsWith(columnTitle, "[Archived]")
        THEN column.archived = Some(TRUE) /\ column.title \o " [Archived]" = columnTitle
        ELSE column.archived = Some(FALSE) /\ column.title = columnTitle

\* C28: the board mirrors the header sequence of the document: one column per `## `
\* line outside code fences and comment lines, in document order, and in each
\* column one task per task-header line between its header and the next, in
\* document order; task headers before the first column header give no task, and
\* the task and the column open at the end of the input are in the board
C28_BoardMirrorsHeaders ==
    pc = "loaded" =>
        LET headers == Headers(pst[1].lines, Len(pst[1].lines)).columns
            columns == outBoard[1].columns
        IN  /\ Len(columns) = Len(headers)
            /\ \A c \in 1 .. Len(headers) :
                  /\ IsColumnOfHeader(columns[c], headers[c].header)
                  /\ Len(columns[c].tasks) = Len(headers[c].tasks)
                  /\ \A t \in 1 .. Len(headers[c].tasks) :
                        IsTaskOfHeader(columns[c].tasks[t], headers[c].tasks[t])

\* C28 witness: a task header before the first column header, and a column with
\* two tasks, the first closed by the header of the second, the second open at the
\* end of the input
C28_Witness ==
    /\ pc = "loaded"
    /\ pst[1].lines = << "- b", "## A", "### TSK_1 a", "- b", "" >>
    /\ Len(outBoard[1].columns) = 1
    /\ Len(outBoard[1].columns[1].tasks) = 2


(***************************************************************************)
(* The final pass of parseMarkdown: the ids it gives                       *)
(***************************************************************************)
\* the counter of a document of SpecDoc: that of its next-id comment, else 1
DocCounter(lines) ==
    IF \E k \in 1 .. Len(lines) : lines[k] = "<!-- next-id: 2 -->" THEN 2 ELSE 1

\* the positions, in column order then task order, of the tasks whose id is not of
\* the form TSK_<n> / TSK-<n>
Lacking(tasks) == SelectSeq(Indices(Len(tasks)), LAMBDA t : ~IsTaskId(tasks[t].id))

\* C29: with k the counter of the document and m the number of tasks that lack an
\* id of the form TSK_<n> / TSK-<n>, parseMarkdown gives those tasks the ids TSK_k,
\* ..., TSK_(k+m-1) in column order then task order, leaves the id of every other
\* task as written, and returns nextId = k + m
C29_DenseAllocation ==
    pc = "loaded" =>
        LET before == AllTasks(FlushedColumns(pst[1]))
            after == AllTasks(outBoard[1].columns)
            k == DocCounter(pst[1].lines)
            lacking == Lacking(before)
        IN  /\ Len(after) = Len(before)
            /\ \A j \in 1 .. Len(lacking) :
                  after[lacking[j]].id = "TSK_" \o NumToString(k + j - 1)
            /\ \A t \in 1 .. Len(before) :
                  /\ IsTaskId(before[t].id) => after[t].id = before[t].id
                  /\ [after[t] EXCEPT !.id = before[t].id] = before[t]
            /\ outBoard[1].nextId = k + Len(lacking)

\* C29 witness: two tasks without an id around a task with one, and no counter
C29_Witness ==
    /\ pc = "loaded"
    /\ pst[1].lines = << "## Todo", "- c", "### TSK-2 a", "- c", "" >>
    /\ outBoard[1].nextId = 3
    /\ outBoard[1].columns[1].tasks[1].id = "TSK_1"
    /\ outBoard[1].columns[1].tasks[2].id = "TSK-2"
    /\ outBoard[1].columns[1].tasks[3].id = "TSK_2"


(***************************************************************************)
(* A document, and the same document with a next-id comment line inserted  *)
(***************************************************************************)
\* lines of the document: two of them hold a next-id comment, one as the whole
\* line and one after a text
CounterVocabulary ==
    { "- c", "> x | high", Fence, "<!-- next-id: 3 -->", "text <!-- next-id: 4 -->" }

\* the comment lines inserted
CounterLines == { "<!-- next-id: 5 -->", "  <!--next-id:12-->  " }

CounterCases ==
    UNION {[lines : [1 .. k -> CounterVocabulary], after : 0 .. k + 1,
            inserted : CounterLines] : k \in 1 .. MaxPadded}

InitCounter ==
    /\ NoPanel
    /\ pc = "plain"
    /\ input \in {Some(c) : c \in CounterCases}
    /\ pst = Undefined
    /\ outBoard = Undefined
    /\ outText = Undefined
    /\ outBoard2 = Undefined
    /\ outText2 = Undefined

SpecCounter == InitCounter /\ [][NextBlank]_vars

\* the N of the next-id comment a line of the documents holds, 0 if it holds none
CommentNumber(line) ==
    IF line = "<!-- next-id: 3 -->" THEN 3
    ELSE IF line = "text <!-- next-id: 4 -->" THEN 4
    ELSE IF line = "<!-- next-id: 5 -->" THEN 5
    ELSE IF line = "  <!--next-id:12-->  " THEN 12
    ELSE 0

\* the N of the first next-id comment of the lines, 1 if they hold none
RECURSIVE FirstCounter(_)
FirstCounter(lines) ==
    IF Len(lines) = 0 THEN 1
    ELSE IF CommentNumber(lines[1]) # 0 THEN CommentNumber(lines[1])
    ELSE FirstCounter(Tail(lines))

\* the task without its id
WithoutId(task) == [task EXCEPT !.id = ""]

\* the two boards have the same title and the same columns and tasks, the ids the
\* final pass gave aside
SameButGeneratedIds(a, b) ==
    /\ a.title = b.title
    /\ Len(a.columns) = Len(b.columns)
    /\ \A c \in 1 .. Len(a.columns) :
          /\ a.columns[c].title = b.columns[c].title
          /\ a.columns[c].archived = b.columns[c].archived
          /\ Len(a.columns[c].tasks) = Len(b.columns[c].tasks)
          /\ \A t \in 1 .. Len(a.columns[c].tasks) :
                LET x == a.columns[c].tasks[t]
                    y == b.columns[c].tasks[t]
                IN  /\ WithoutId(x) = WithoutId(y)
                    /\ (IsTaskId(x.id) /\ IsTaskId(y.id) /\ x.id # y.id) =>
                          /\ HasIdForm(x.id, "_")
                          /\ HasIdForm(y.id, "_")

\* C30: the counter parseMarkdown starts from is the N of the first next-id comment
\* of the text, wherever it stands (not the first line, inside a task body, inside
\* a code fence), and 1 when the text holds none; the comment line becomes no
\* title, column, task or description text
C30_CounterIsFirstComment ==
    /\ pc \in {"parsedPlain", "parsedPadded"} =>
          ParserStart(outText[1], << "r" >>).nextId = FirstCounter(PlainLines(input[1]))
    /\ pc = "parsedPadded" =>
          /\ pst[1].lines[pst[1].i] = input[1].inserted
          /\ pst[1].nextId = FirstCounter(PaddedLines(input[1]))
          /\ ParseLine(pst[1]) = [pst[1] EXCEPT !.i = @ + 1]
          /\ SameButGeneratedIds(outBoard[1], outBoard2[1])

\* C30 witness: the comment is inserted inside the code fence of a task body,
\* before a line with a later comment, and the task without id gets the id TSK_5
C30_Witness ==
    /\ pc = "parsedPadded"
    /\ input[1].lines = << "- c", Fence, "<!-- next-id: 3 -->" >>
    /\ input[1].after = 3
    /\ input[1].inserted = "<!-- next-id: 5 -->"
    /\ pst[1].inCodeBlock
    /\ outBoard[1].columns[1].tasks[1].id = "TSK_3"
    /\ outBoard2[1].columns[1].tasks[1].id = "TSK_5"
    /\ outBoard2[1].nextId = 6


(***************************************************************************)
(* The task headers of a document and the titles of its tasks              *)
(***************************************************************************)
\* task header lines: a dash with nothing after it, headers that are an id only,
\* headers with a checkbox, and plain ones
TitleVocabulary ==
    { "- ", "-    ", "### TSK_1", "- TSK-2", "- [ ] x", "- [x]", "### [ ] y",
      "- TSK_3 t", "text" }

TitleDocs ==
    {LinesText(<< "## A" >> \o lines) :
        lines \in UNION {[1 .. k -> TitleVocabulary] : k \in 1 .. MaxLines}}

InitTitle ==
    /\ NoPanel
    /\ pc = "text"
    /\ input \in {Some(t) : t \in TitleDocs}
    /\ pst = Undefined
    /\ outBoard = Undefined
    /\ outText = Undefined
    /\ outBoard2 = Undefined
    /\ outText2 = Undefined

SpecTitle == InitTitle /\ [][NextOutline]_vars

\* C31: every task of the board parseMarkdown returns has a title that is not
\* empty, for every document: also for root-level `- ` lines with nothing after
\* the dash, headers that are an id only, and headers with a checkbox
C31_TitlesAreNotEmpty ==
    pc = "loaded" =>
        \A t \in 1 .. Len(AllTasks(outBoard[1].columns)) :
            AllTasks(outBoard[1].columns)[t].title # ""

\* the line is a dash followed by white space only
IsBareDash(line) == StartsWith(line, "- ") /\ Trim(line) = "-"

\* the tasks with an empty title are those of the lines that are a dash and
\* nothing else: as many tasks have an empty title as the document has such lines
EmptyTitlesAreOfBareDashes ==
    pc = "loaded" =>
        Len(SelectSeq(AllTasks(outBoard[1].columns), LAMBDA task : task.title = ""))
            = Len(SelectSeq(pst[1].lines, IsBareDash))


\* the text of the first `# ` line of the first k lines outside code fences and
\* comment lines, "" if there is none
RECURSIVE FirstTitle(_, _, _)
FirstTitle(lines, k, inFence) ==
    IF k > Len(lines) THEN ""
    ELSE IF IsCommentLine(lines[k]) THEN FirstTitle(lines, k + 1, inFence)
    ELSE IF IsFenceLine(lines[k]) THEN FirstTitle(lines, k + 1, ~inFence)
    ELSE IF inFence THEN FirstTitle(lines, k + 1, inFence)
    ELSE IF StartsWith(Trim(lines[k]), "# ") THEN Trim(Substring(Trim(lines[k]), 2))
    ELSE FirstTitle(lines, k + 1, inFence)

\* once the title is set no step of the loop changes it
C32_TitleStays ==
    (pc = "parsing" /\ pc' = "parsing" /\ pst[1].title # "") =>
        pst'[1].title = pst[1].title

\* the title returned is the text of the first `# ` line outside code fences
C32_TitleIsFirst ==
    (pc = "parsing" /\ pc' = "loaded") =>
        outBoard'[1].title = FirstTitle(pst[1].lines, 1, FALSE)

\* C32: the board title is set once: it is the text of the first `# ` line outside
\* code fences, and no later `# ` line changes it
C32_TitleIsSetOnce == [][C32_TitleStays /\ C32_TitleIsFirst]_vars

\* C32 witness: a second `# ` line after the first, inside a task body
C32_Witness ==
    /\ pc = "loaded"
    /\ pst[1].lines = << "# T", "## A", "- b", "# U", "" >>
    /\ outBoard[1].title = "T"
    /\ Len(outBoard[1].columns[1].tasks) = 1


(***************************************************************************)
(* The state of the loop of parseMarkdown between its iterations           *)
(***************************************************************************)
\* lines of a task body: sections of both dialects, items of both dialects, a
\* metadata line, text, and the headers that close a task
StateVocabulary ==
    { "### TSK_1 a", "> x | low", "**Steps:**", "**AC:**", "**Files:** f", "- [x] s",
      "  - verify:", "      - [ ] o", "text", "## B" }

StateDocs ==
    {LinesText(<< "## A" >> \o lines) :
        lines \in UNION {[1 .. k -> StateVocabulary] : k \in 1 .. MaxOutline}}

InitState ==
    /\ NoPanel
    /\ pc = "text"
    /\ input \in {Some(t) : t \in StateDocs}
    /\ pst = Undefined
    /\ outBoard = Undefined
    /\ outText = Undefined
    /\ outBoard2 = Undefined
    /\ outText2 = Undefined

SpecState == InitState /\ [][NextOutline]_vars

\* the state between two iterations: a task is open exactly when inTaskBody; an
\* open task has an open column; an active list key names a list of the open task;
\* the description is not collected while a list key is active
ConsistentState(st) ==
    /\ IsDefined(st.currentTask) <=> st.inTaskBody
    /\ IsDefined(st.currentTask) => IsDefined(st.currentColumn)
    /\ st.activeListKey # "" =>
          /\ st.activeListKey \in {"steps", "ac", "verify"}
          /\ IsDefined(st.currentTask)
          /\ IsDefined(st.currentTask[1][st.activeListKey])
    /\ ~(st.collectingDescription /\ st.activeListKey # "")

\* the list of the task under the key has more items after the step than before
Grows(st, nx, key) ==
    Len(OrEmptyList(nx.currentTask[1][key])) > Len(OrEmptyList(st.currentTask[1][key]))

\* a step that appends an item to a list appends it to the list of the key that
\* is active, the key set by the most recent section header of the open task, and
\* changes no other list
C33_ItemStep ==
    (pc = "parsing" /\ pc' = "parsing"
     /\ IsDefined(pst[1].currentTask) /\ IsDefined(pst'[1].currentTask)) =>
        \A key \in {"steps", "ac", "verify"} :
            Grows(pst[1], pst'[1], key) =>
                /\ pst[1].activeListKey = key
                /\ pst'[1].activeListKey = key
                /\ SubSeq(pst'[1].currentTask[1][key][1], 1,
                          Len(pst[1].currentTask[1][key][1]))
                       = pst[1].currentTask[1][key][1]
                /\ \A other \in {"steps", "ac", "verify"} \ {key} :
                      pst'[1].currentTask[1][other] = pst[1].currentTask[1][other]

\* the state after every step of the loop is consistent
C33_StepKeepsConsistent ==
    pc' = "parsing" => ConsistentState(pst'[1])

\* C33: at every iteration of the loop currentTask is non-null exactly when
\* inTaskBody is true, currentTask non-null implies currentColumn non-null, a
\* non-null activeListKey implies an open task with that list present,
\* collectingDescription and an activeListKey never hold together, and a checklist
\* item is only appended to the list named by the active key of the open task
C33_ParserStateIsConsistent == [][C33_StepKeepsConsistent /\ C33_ItemStep]_vars

\* C33 witness: after a Steps section and an AC section an item was appended to ac
C33_Witness ==
    /\ pc = "parsing"
    /\ pst[1].lines = << "## A", "### TSK_1 a", "**Steps:**", "**AC:**", "- [x] s", "" >>
    /\ pst[1].i = 6
    /\ pst[1].activeListKey = "ac"
    /\ pst[1].currentTask[1].ac = Some(<< [text |-> "s", completed |-> TRUE] >>)
    /\ pst[1].currentTask[1].steps = Some(<< >>)


(***************************************************************************)
(* The frame of editTask, under SpecMutation                               *)
(***************************************************************************)
\* the position (column, task) of the task findTask returns: the first task with
\* the id in the first column with the id
EditedColumn(b, m) ==
    CHOOSE c \in 1 .. Len(b.columns) :
        /\ b.columns[c].id = m.columnId
        /\ \A d \in 1 .. c - 1 : b.columns[d].id # m.columnId

EditedTask(b, m) ==
    CHOOSE t \in 1 .. Len(b.columns[EditedColumn(b, m)].tasks) :
        /\ b.columns[EditedColumn(b, m)].tasks[t].id = m.taskId
        /\ \A u \in 1 .. t - 1 : b.columns[EditedColumn(b, m)].tasks[u].id # m.taskId

\* the fields editTask leaves alone
KeptFields == {"id", "ac", "verify", "files"}

\* C37: editTask on an existing task changes only that task's title, description,
\* tags, priority, workload, dueDate, defaultExpanded and steps; the task keeps its
\* id, ac, verify, files, its column and its position; every other task, every
\* column and nextId are unchanged
C37_EditTaskFrame ==
    (/\ pc = "applied" /\ input[1].message.type = "editTask"
     /\ ~NotFound(input[1].board, input[1].message)) =>
        LET b == input[1].board
            m == input[1].message
            c == EditedColumn(b, m)
            t == EditedTask(b, m)
            after == outBoard[1]
        IN  /\ after.title = b.title
            /\ after.nextId = b.nextId
            /\ Len(after.columns) = Len(b.columns)
            /\ \A d \in 1 .. Len(b.columns) :
                  /\ after.columns[d].id = b.columns[d].id
                  /\ after.columns[d].title = b.columns[d].title
                  /\ after.columns[d].archived = b.columns[d].archived
                  /\ Len(after.columns[d].tasks) = Len(b.columns[d].tasks)
                  /\ \A u \in 1 .. Len(b.columns[d].tasks) :
                        (d # c \/ u # t) =>
                            after.columns[d].tasks[u] = b.columns[d].tasks[u]
            /\ \A f \in KeptFields :
                  after.columns[c].tasks[t][f] = b.columns[c].tasks[t][f]
            /\ after.columns[c].tasks[t].title = m.taskData.title
            /\ after.columns[c].tasks[t].steps = OrEmpty(m.taskData.steps)

\* C37 witness: a task with ac, verify and files, followed by a task of the same
\* id, was edited: its title changed and its ac list is still there
C37_Witness ==
    /\ pc = "applied"
    /\ input[1].message.type = "editTask"
    /\ input[1].message.taskId = "TSK_1"
    /\ ~NotFound(input[1].board, input[1].message)
    /\ Len(input[1].board.columns[1].tasks) = 2
    /\ input[1].board.columns[1].tasks[2].id = "TSK_1"
    /\ IsDefined(input[1].board.columns[1].tasks[1].ac)
    /\ outBoard[1].columns[1].tasks[1].title = "Fix"
    /\ outBoard[1].columns[1].tasks[1].ac = input[1].board.columns[1].tasks[1].ac
    /\ outBoard[1].columns[1].tasks[2].title = "dup"


(***************************************************************************)
(* A mutation with a title, the save, and the load of what was saved       *)
(***************************************************************************)
\* the titles a message carries: a word, a title ending with the archive marker,
\* the empty title, a title of two lines, a title that is a header line
EntityTitles == { "New", "Done [Archived]", "", "a\nb", "## x" }

\* the title is one non-empty line without a marker of the document's syntax
PlainTitles == { "New" }

EntityBoards ==
    {parseMarkdown(d, << "k3x9a0b1c", "p0q7zz81m", "w5e2r4t6y" >>) : d \in AsyncDocs}

\* the task form submitted with the title
TitledTaskData(title) ==
    [title |-> title, description |-> Some(""), tags |-> Some(<< >>),
     priority |-> Undefined, workload |-> Undefined, dueDate |-> Undefined,
     defaultExpanded |-> Some(FALSE), steps |-> Some(<< >>)]

\* the ids and the indices of the board, as the webview sends them
IdsOfColumns(b) == {b.columns[c].id : c \in 1 .. Len(b.columns)}

IdsOfTasks(b, columnId) ==
    UNION {{b.columns[c].tasks[t].id : t \in 1 .. Len(b.columns[c].tasks)} :
              c \in {c \in 1 .. Len(b.columns) : b.columns[c].id = columnId}}

EntityRequests(b) ==
    [type : {"addTask"}, columnId : IdsOfColumns(b), title : EntityTitles]
    \cup UNION {[type : {"editTask"}, columnId : {c}, taskId : IdsOfTasks(b, c),
                 title : EntityTitles] : c \in IdsOfColumns(b)}
    \cup [type : {"addColumn"}, title : EntityTitles]
    \cup UNION {[type : {"deleteTask"}, columnId : {c}, taskId : IdsOfTasks(b, c)] :
                   c \in IdsOfColumns(b)}
    \cup UNION {[type : {"moveTask"}, fromColumnId : {c}, taskId : IdsOfTasks(b, c),
                 toColumnId : IdsOfColumns(b), newIndex : 0 .. MaxIndex] :
                   c \in IdsOfColumns(b)}
    \cup [type : {"moveColumn"}, fromIndex : 0 .. Len(b.columns) - 1,
          toIndex : 0 .. Len(b.columns) - 1]
    \cup [type : {"toggleColumnArchive"}, columnId : IdsOfColumns(b), archived : BOOLEAN]

\* the board after the action of the message
BoardAfter(b, m) ==
    CASE m.type = "addTask" -> addTask(b, m.columnId, TitledTaskData(m.title))
      [] m.type = "editTask" -> editTask(b, m.taskId, m.columnId, TitledTaskData(m.title))
      [] m.type = "addColumn" -> addColumn(b, m.title, "n3wc0lumn")
      [] m.type = "deleteTask" -> deleteTask(b, m.taskId, m.columnId)
      [] m.type = "moveTask" ->
            moveTask(b, m.taskId, m.fromColumnId, m.toColumnId, m.newIndex)
      [] m.type = "moveColumn" -> moveColumn(b, m.fromIndex, m.toIndex)
      [] m.type = "toggleColumnArchive" -> toggleColumnArchive(b, m.columnId, m.archived)

InitEntities ==
    /\ board = Undefined
    /\ document = ""
    /\ taskHeader \in {"title", "list"}
    /\ selfSave = "elapsed"
    /\ saved = FALSE
    /\ handedOut = {}
    /\ reused = FALSE
    /\ baseId = 1
    /\ created = << >>
    /\ mutations = 0
    /\ NoSaves
    /\ pc = "request"
    /\ \E b \in EntityBoards :
          input \in {Some([board |-> b, message |-> m]) : m \in EntityRequests(b)}
    /\ pst = Undefined
    /\ outBoard = Undefined
    /\ outText = Undefined
    /\ outBoard2 = Undefined
    /\ outText2 = Undefined

\* performAction: action()
MutateBoard ==
    /\ pc = "request"
    /\ outBoard' = Some(BoardAfter(input[1].board, input[1].message))
    /\ pc' = "mutated"
    /\ UNCHANGED << input, pst, outText, outBoard2, outText2 >>
    /\ UNCHANGED panelVars

\* performAction: saveToMarkdown()
SaveBoard ==
    /\ pc = "mutated"
    /\ outText' = Some(generateMarkdown(outBoard[1], taskHeader))
    /\ pc' = "saved"
    /\ UNCHANGED << input, pst, outBoard, outBoard2, outText2 >>
    /\ UNCHANGED panelVars

\* loadMarkdownFile of the saved document
ReloadBoard ==
    /\ pc = "saved"
    /\ \E rnd \in RandomOutcomes : outBoard2' = Some(parseMarkdown(outText[1], rnd))
    /\ pc' = "reloaded"
    /\ UNCHANGED << input, pst, outBoard, outText, outText2 >>
    /\ UNCHANGED panelVars

NextEntities ==
    \/ MutateBoard
    \/ SaveBoard
    \/ ReloadBoard

SpecEntities == InitEntities /\ [][NextEntities]_vars

\* the ids and titles of the tasks of a column, in order
Entries(column) ==
    [t \in 1 .. Len(column.tasks) |->
        << column.tasks[t].id, column.tasks[t].title >>]

\* the same columns by title in the same order, and in each the same task ids and
\* titles in the same order
SameEntities(a, b) ==
    /\ Len(a.columns) = Len(b.columns)
    /\ \A c \in 1 .. Len(a.columns) :
          /\ a.columns[c].title = b.columns[c].title
          /\ Entries(a.columns[c]) = Entries(b.columns[c])

\* C34: for every board reached from a parsed document by addTask, deleteTask,
\* moveTask, editTask, addColumn, moveColumn and toggleColumnArchive, with any
\* title the message carries, parseMarkdown(generateMarkdown(board)) has the same
\* columns by title in the same order and in each column the same task ids and
\* titles in the same order
C34_EntitiesSurvive ==
    pc = "reloaded" => SameEntities(outBoard[1], outBoard2[1])

\* the message carries no title, or a plain one
HasPlainTitle(m) ==
    m.type \in {"addTask", "editTask", "addColumn"} => m.title \in PlainTitles

\* with plain titles the entities survive the save and the load
PlainTitledEntitiesSurvive ==
    (pc = "reloaded" /\ HasPlainTitle(input[1].message)) =>
        SameEntities(outBoard[1], outBoard2[1])

\* a column added with a title that ends with the archive marker is read back
\* without the marker
MarkerTitleIsReadAsArchived ==
    /\ pc = "reloaded"
    /\ input[1].message.type = "addColumn"
    /\ input[1].message.title = "Done [Archived]"
    /\ Len(outBoard2[1].columns) = Len(outBoard[1].columns)
    /\ outBoard2[1].columns[Len(outBoard2[1].columns)].title = "Done"


(***************************************************************************)
(* The self-save guard of loadMarkdownFile with two documents.  In this    *)
(* specification pst is the text of each document of the workspace,        *)
(* outText the document that is _document, input the document of the most  *)
(* recent loadMarkdownFile call that was not caused by the panel's own     *)
(* save, and document the text of _document.                               *)
(***************************************************************************)
GuardDocuments == {"a.md", "b.md"}

\* the number of mutation messages, and of changes made outside the panel
MaxRequests == 1

InitGuard ==
    /\ pst \in [GuardDocuments -> AsyncDocs]
    /\ outText \in {Some(d) : d \in GuardDocuments}
    /\ input = outText
    /\ document = pst[outText[1]]
    /\ board = Some(parseMarkdown(document, << "k3x9a0b1c", "p0q7zz81m", "w5e2r4t6y" >>))
    /\ taskHeader \in {"title", "list"}
    /\ selfSave = "elapsed"
    /\ saved = FALSE
    /\ handedOut = {}
    /\ reused = FALSE
    /\ baseId = board[1].nextId
    /\ created = << >>
    /\ mutations = 0
    /\ pendingSaves = << >>
    /\ documentVersion = 1
    /\ prefixBoards = << >>
    /\ written = {}
    /\ posted = {board[1]}
    /\ pc = "loaded"
    /\ outBoard = Undefined
    /\ outBoard2 = Undefined
    /\ outText2 = Undefined

\* loadMarkdownFile(d), the documents having the texts: the early return within
\* 1.5 s of a self-save, else _document = d, the parse, and _update()
GuardedLoad(d, texts) ==
    /\ input' = Some(d)
    /\ IF selfSave = "within"
       THEN /\ pc' = "skipped"
            /\ document' = texts[outText[1]]
            /\ UNCHANGED << outText, board, posted >>
       ELSE /\ outText' = Some(d)
            /\ document' = texts[d]
            /\ \E rnd \in RandomOutcomes : board' = Some(parseMarkdown(texts[d], rnd))
            /\ posted' = {board'[1]}
            /\ pc' = "loaded"

\* createOrShow(document) with the panel open: reveal, then loadMarkdownFile
CreateOrShow ==
    /\ \E d \in GuardDocuments : GuardedLoad(d, pst)
    /\ UNCHANGED << pst, taskHeader, selfSave, saved, handedOut, reused, baseId, created,
                    mutations, pendingSaves, documentVersion, prefixBoards, written,
                    outBoard, outBoard2, outText2 >>

\* the text of _document is changed outside the panel; the change event calls
\* loadMarkdownFile with the document
ExternalEdit ==
    /\ documentVersion - 1 - mutations < MaxRequests
    /\ \E text \in AsyncDocs :
          /\ text # pst[outText[1]]
          /\ pst' = [pst EXCEPT ![outText[1]] = text]
          /\ GuardedLoad(outText[1], pst')
    /\ documentVersion' = documentVersion + 1
    /\ UNCHANGED << taskHeader, selfSave, saved, handedOut, reused, baseId, created,
                    mutations, pendingSaves, prefixBoards, written,
                    outBoard, outBoard2, outText2 >>

\* performAction(addColumn) with the save completed: the time stamp, the text of
\* _document replaced; the change event of the save finds the guard closed
AddColumnGuarded ==
    /\ mutations < MaxRequests
    /\ \E title \in ColumnTitles, rnd \in RandomOutcomes :
          board' = Some(addColumn(board[1], title, rnd[1]))
    /\ selfSave' = "within"
    /\ document' = generateMarkdown(board'[1], taskHeader)
    /\ pst' = [pst EXCEPT ![outText[1]] = document']
    /\ documentVersion' = documentVersion + 1
    /\ written' = written \cup {document'}
    /\ posted' = {board'[1]}
    /\ saved' = TRUE
    /\ mutations' = mutations + 1
    /\ UNCHANGED << taskHeader, handedOut, reused, baseId, created, pendingSaves,
                    prefixBoards, pc, input, outText, outBoard, outBoard2, outText2 >>

NextGuard ==
    \/ CreateOrShow
    \/ ExternalEdit
    \/ AddColumnGuarded
    \/ TimeElapses

SpecGuard == InitGuard /\ [][NextGuard]_vars

\* _document is the requested document and _board is the parse of its text
BoardIsOfRequested ==
    /\ outText = input
    /\ \E rnd \in RandomOutcomes : SameBoard(board[1], parseMarkdown(pst[input[1]], rnd))

\* C35: once the system is quiescent (no self-save within the last 1.5 s, no
\* call pending) the panel's _document is the most recently requested document
\* and _board equals parseMarkdown of that document's current text
C35_NoLoadIsLost ==
    selfSave = "elapsed" => BoardIsOfRequested

\* as long as no call met the closed guard, the board is that of the requested
\* document
HonouredLoadsAreConsistent ==
    pc = "loaded" => BoardIsOfRequested

\* a change made outside the panel within 1.5 s of a save is never loaded: the
\* time has elapsed and the board is still that of the text the panel saved
SkippedEditIsNeverLoaded ==
    /\ selfSave = "elapsed"
    /\ pc = "skipped"
    /\ outText = input
    /\ pst[outText[1]] \in AsyncDocs
    /\ written # {}
    /\ \E t \in written : \E rnd \in RandomOutcomes :
          SameBoard(board[1], parseMarkdown(t, rnd))
    /\ ~BoardIsOfRequested

\* createOrShow of the other document within 1.5 s of a save is never honoured
SkippedDocumentIsNeverShown ==
    /\ selfSave = "elapsed"
    /\ pc = "skipped"
    /\ outText # input


(***************************************************************************)
(* The placeholder board and saveToMarkdown, under SpecLoad                *)
(***************************************************************************)
\* the board is the placeholder of the catch branch of loadMarkdownFile
HoldsPlaceholder == pc = "raised" /\ board = Some(ErrorBoard)

\* C36: after loadMarkdownFile replaced the board with the 'Error Loading Board'
\* placeholder because parsing failed, no mutation message causes saveToMarkdown
\* to write to the document: the text stays as it was until a successful parse
C36_PlaceholderIsNotWritten == [][HoldsPlaceholder => written' = written]_vars

\* the document's text is the serialization of the placeholder with the column
\* that addColumn added to it
PlaceholderIsWrittenBack ==
    /\ pc = "mutated"
    /\ board[1].title = ErrorBoard.title
    /\ Len(board[1].columns) = 1
    /\ board[1].columns[1].tasks = << >>
    /\ document = generateMarkdown(board[1], taskHeader)
    /\ document \in written


(***************************************************************************)
(* A board written in both header styles, and both texts parsed            *)
(***************************************************************************)
\* non-empty titles of one line: a word, titles that begin like a checklist item,
\* titles that begin with a legacy property key and a colon, a title that begins
\* with the list marker, a title that begins like an id
HeaderTitles == { "T", "[ ] x", "[x] y", "due: z", "steps:", "- dash", "TSK_9 w" }

\* the bodies of the task under test: none, a metadata line with a description, a
\* checklist
HeaderBodies ==
    { [tags |-> Undefined, description |-> Undefined, steps |-> Undefined],
      [tags |-> Some(<< "x" >>), description |-> Some("d"), steps |-> Undefined],
      [tags |-> Undefined, description |-> Undefined,
       steps |-> Some(<< [text |-> "s", completed |-> TRUE] >>)] }

\* boards of one column: the task under test, with an id of the TSK form or with
\* another id, and possibly a task after it
HeaderBoards ==
    {[title |-> "B", nextId |-> 3,
      columns |-> << [id |-> "c1", title |-> "Todo", archived |-> Undefined,
                      tasks |-> << [NewTask(id, title) EXCEPT
                                       !.tags = body.tags,
                                       !.description = body.description,
                                       !.steps = body.steps] >> \o rest] >>] :
        id \in {"TSK_1", "k3x9a0b1c"}, title \in HeaderTitles, body \in HeaderBodies,
        rest \in {<< >>, << NewTask("TSK_2", "U") >>}}

InitHeader ==
    /\ NoPanel
    /\ pc = "board"
    /\ input \in {Some(b) : b \in HeaderBoards}
    /\ pst = Undefined
    /\ outBoard = Undefined
    /\ outText = Undefined
    /\ outBoard2 = Undefined
    /\ outText2 = Undefined

\* parseMarkdown of the text of either style
ParseBothStyles ==
    /\ pc = "bothStyles"
    /\ \E rnd \in RandomOutcomes :
          /\ outBoard' = Some(parseMarkdown(outText[1], rnd))
          /\ outBoard2' = Some(parseMarkdown(outText2[1], rnd))
    /\ pc' = "bothParsed"
    /\ UNCHANGED << input, pst, outText, outText2 >>
    /\ UNCHANGED panelVars

NextHeader ==
    \/ SerializeTitleStyle
    \/ SerializeListStyle
    \/ ParseBothStyles

SpecHeader == InitHeader /\ [][NextHeader]_vars

HasTaskIds(b) ==
    \A t \in 1 .. Len(AllTasks(b.columns)) : IsTaskId(AllTasks(b.columns)[t].id)

\* with an id prefix in every header both styles load to the same board
PrefixedHeadersLoadTheSame ==
    (pc = "bothParsed" /\ HasTaskIds(input[1])) => outBoard[1] = outBoard2[1]

\* without an id prefix the list-style header of the title `[ ] x` is a checklist
\* item line: the title style loads the task, the list style loads no task for it
ListHeaderIsReadAsItem ==
    /\ pc = "bothParsed"
    /\ input[1].columns[1].tasks[1].title = "[ ] x"
    /\ ~IsTaskId(input[1].columns[1].tasks[1].id)
    /\ Len(input[1].columns[1].tasks) = 1
    /\ Len(outBoard[1].columns[1].tasks) = 1
    /\ outBoard[1].columns[1].tasks[1].title = "[ ] x"
    /\ outBoard2[1].columns[1].tasks = << >>

=============================================================================
